---- MODULE Spec2Model ----
(***************************************************************************)
(* Model of access.config.parser: ConfigParser.parse, Config (the          *)
(* Structured Document), ConfigList (the Bound List), the parse-tree       *)
(* helpers and the value type registry of access.config.parser_types.      *)
(*                                                                         *)
(* Text is a sequence of tokens; a lexeme is a sequence of one-character   *)
(* strings, so that the handlers can index, scan and rewrite it the way    *)
(* the Python code does.  The parse tree is an arena: a sequence of nodes  *)
(* addressed by their index, which stands for Python object identity.      *)
(***************************************************************************)
EXTENDS Integers, Sequences, FiniteSets, TLC

VARIABLES
    text,           \* the token sequence handed to ConfigParser.parse
    caseSensitive,  \* ConfigParser.case_sensitive_keys
    nodes,          \* the parse tree arena: node id -> [data, children, parent]
    docs,           \* Config objects: id of their root node -> [tree, data, refs, order]
    lists,          \* ConfigList objects: list id -> [data, refs]
    last,           \* the last call made on the API, its outcome and the state before it
    layout,         \* a call of the layout generators: its arguments and what it returned
    profile         \* a call of UMProfilingParser.read: its stream and what it returned

vars == <<text, caseSensitive, nodes, docs, lists, last, layout, profile>>

-----------------------------------------------------------------------------
(* Bounds of the model *)

\* Largest length an inherited list.append may grow a ConfigList to.
MaxListLen == 4

-----------------------------------------------------------------------------
(* Characters and Python string builtins *)

LowerCase == <<"a","b","c","d","e","f","g","h","i","j","k","l","m",
               "n","o","p","q","r","s","t","u","v","w","x","y","z">>
UpperCase == <<"A","B","C","D","E","F","G","H","I","J","K","L","M",
               "N","O","P","Q","R","S","T","U","V","W","X","Y","Z">>
Digits == <<"0","1","2","3","4","5","6","7","8","9">>

IndexIn(c, s) == IF \E i \in DOMAIN s : s[i] = c
                 THEN CHOOSE i \in DOMAIN s : s[i] = c
                 ELSE 0

\* str.upper()
PyUpper(s) == [i \in DOMAIN s |->
                 IF IndexIn(s[i], LowerCase) > 0
                 THEN UpperCase[IndexIn(s[i], LowerCase)] ELSE s[i]]

\* str.lower()
PyLower(s) == [i \in DOMAIN s |->
                 IF IndexIn(s[i], UpperCase) > 0
                 THEN LowerCase[IndexIn(s[i], UpperCase)] ELSE s[i]]

\* str.replace(old, new) for one-character old and new
PyReplace(s, old, new) == [i \in DOMAIN s |-> IF s[i] = old THEN new ELSE s[i]]

IsDigit(c) == IndexIn(c, Digits) > 0
DigitVal(c) == IndexIn(c, Digits) - 1

RECURSIVE DigitsToNat(_, _)
\* the decimal number written by the digit string s, continuing from acc
DigitsToNat(s, acc) ==
    IF s = <<>> THEN acc ELSE DigitsToNat(Tail(s), 10 * acc + DigitVal(Head(s)))

RECURSIVE NatToDigits(_)
NatToDigits(n) ==
    IF n < 10 THEN <<Digits[n + 1]>>
    ELSE NatToDigits(n \div 10) \o <<Digits[(n % 10) + 1]>>

\* int(token): optional sign, then decimal digits
PyInt(s) ==
    IF Head(s) = "-" THEN 0 - DigitsToNat(Tail(s), 0)
    ELSE IF Head(s) = "+" THEN DigitsToNat(Tail(s), 0)
    ELSE DigitsToNat(s, 0)

\* str(abs(n))
PyStrInt_unsigned(n) == NatToDigits(IF n < 0 THEN 0 - n ELSE n)

\* str(int)
PyStrInt(n) == IF n < 0 THEN <<"-">> \o NatToDigits(0 - n) ELSE NatToDigits(n)

-----------------------------------------------------------------------------
(* Python floats.  A float is the decimal m * 10^e with m not a multiple   *)
(* of ten (0 is m = 0, e = 0); the lexemes of the model are short decimals *)
(* for which float() and repr() are exact on this form.                    *)

RECURSIVE NormFloat(_, _)
NormFloat(m, e) ==
    IF m = 0 THEN [m |-> 0, e |-> 0]
    ELSE IF m % 10 = 0 THEN NormFloat(m \div 10, e + 1)
    ELSE [m |-> m, e |-> e]

FirstIn(s, chars) == IF \E i \in DOMAIN s : s[i] \in chars
                     THEN CHOOSE i \in DOMAIN s :
                            s[i] \in chars /\ \A j \in 1..(i - 1) : s[j] \notin chars
                     ELSE 0

\* float(token): [sign] digits [. digits] [(e|E) [sign] digits]
PyFloat(s) ==
    LET Signed(abs) == [m |-> IF Head(s) = "-" THEN 0 - abs.m ELSE abs.m, e |-> abs.e]
        OfDigits(ints, frac, ex) ==
            Signed(NormFloat(DigitsToNat(ints \o frac, 0), PyInt(ex) - Len(frac)))
        OfDot(mant, ex, dot) ==
            OfDigits(IF dot = 0 THEN mant ELSE SubSeq(mant, 1, dot - 1),
                     IF dot = 0 THEN <<>> ELSE SubSeq(mant, dot + 1, Len(mant)),
                     ex)
        OfMantissa(mant, ex) == OfDot(mant, ex, FirstIn(mant, {"."}))
        OfExponent(body, k) ==
            OfMantissa(IF k = 0 THEN body ELSE SubSeq(body, 1, k - 1),
                       IF k = 0 THEN <<"0">> ELSE SubSeq(body, k + 1, Len(body)))
        OfBody(body) == OfExponent(body, FirstIn(body, {"e", "E"}))
    IN  OfBody(IF Head(s) \in {"-", "+"} THEN Tail(s) ELSE s)

Zeros(n) == [i \in 1..n |-> "0"]

\* str(float), i.e. repr: positional for 1e-4 <= |x| < 1e16, else scientific
PyStrFloat(x) ==
    LET Fixed(d, n, decpt) ==
            IF decpt <= 0 THEN <<"0", ".">> \o Zeros(0 - decpt) \o d
            ELSE IF decpt >= n THEN d \o Zeros(decpt - n) \o <<".", "0">>
            ELSE SubSeq(d, 1, decpt) \o <<".">> \o SubSeq(d, decpt + 1, n)
        Exponent(xpd) == IF Len(xpd) < 2 THEN <<"0">> \o xpd ELSE xpd
        Sci(d, n, xp) ==
            <<d[1]>> \o (IF n > 1 THEN <<".">> \o SubSeq(d, 2, n) ELSE <<>>)
            \o <<"e", IF xp < 0 THEN "-" ELSE "+">>
            \o Exponent(NatToDigits(IF xp < 0 THEN 0 - xp ELSE xp))
        Render(d, n, decpt) ==
            IF decpt > -4 /\ decpt <= 16 THEN Fixed(d, n, decpt) ELSE Sci(d, n, decpt - 1)
        OfDigits(d) == Render(d, Len(d), Len(d) + x.e)
    IN  IF x.m = 0 THEN <<"0", ".", "0">>
        ELSE (IF x.m < 0 THEN <<"-">> ELSE <<>>)
             \o OfDigits(NatToDigits(IF x.m < 0 THEN 0 - x.m ELSE x.m))

-----------------------------------------------------------------------------
(* Python values.  [t |-> type, v |-> payload] with t one of               *)
(*   "bool" "int" "float" "str" "NoneType"   scalars                       *)
(*   "list"        a plain list, v the sequence of its elements            *)
(*   "tuple"       a tuple, v the sequence of its elements                 *)
(*   "dict"        a plain dict                                            *)
(*   "ConfigList"  v the id of the ConfigList object                       *)
(*   "Config"      v the id of the Config object                           *)

PyBool(b)  == [t |-> "bool", v |-> b]
PyIntV(n)  == [t |-> "int", v |-> n]
PyFloatV(x) == [t |-> "float", v |-> x]
PyStr(s)   == [t |-> "str", v |-> s]
PyNone     == [t |-> "NoneType", v |-> 0]
PyList(s)  == [t |-> "list", v |-> s]
PyTuple(s) == [t |-> "tuple", v |-> s]
PyDict     == [t |-> "dict", v |-> 0]

\* isinstance(value, list): ConfigList is a subclass of list
IsInstanceList(value) == value.t \in {"list", "ConfigList"}
\* isinstance(value, dict): Config is a subclass of dict
IsInstanceDict(value) == value.t \in {"dict", "Config"}

-----------------------------------------------------------------------------
(* parser_types.py *)

ExponentMarkers == {"D", "d", "E", "e"}

\* _float_to_str(value, token)
float_to_str(value, token) ==
    LET Marked(k, str) == IF k > 0 THEN PyReplace(str, "e", token[k]) ELSE str
    IN  Marked(FirstIn(token, ExponentMarkers), PyStrFloat(value))

\* str.isidentifier() for ASCII strings
IsIdentifier(s) ==
    /\ s # <<>>
    /\ \A i \in DOMAIN s :
          \/ IndexIn(s[i], LowerCase) > 0
          \/ IndexIn(s[i], UpperCase) > 0
          \/ s[i] = "_"
          \/ i > 1 /\ IsDigit(s[i])

RECURSIVE PathParts(_, _)
\* the components of a POSIX path string after the component cur being read:
\* empty components and "." are dropped
PathParts(s, cur) ==
    LET Part == IF cur \in {<<>>, <<".">>} THEN <<>> ELSE <<cur>>
    IN  IF s = <<>> THEN Part
        ELSE IF Head(s) = "/" THEN Part \o PathParts(Tail(s), <<>>)
        ELSE PathParts(Tail(s), Append(cur, Head(s)))

RECURSIVE PyJoin(_, _)
\* sep.join(parts)
PyJoin(parts, sep) ==
    IF parts = <<>> THEN <<>>
    ELSE IF Len(parts) = 1 THEN Head(parts)
    ELSE Head(parts) \o sep \o PyJoin(Tail(parts), sep)

\* the root of a POSIX path: exactly two leading slashes are kept
PathRoot(s) ==
    IF Len(s) >= 2 /\ s[1] = "/" /\ s[2] = "/" /\ (Len(s) = 2 \/ s[3] # "/")
    THEN <<"/", "/">>
    ELSE IF s # <<>> /\ s[1] = "/" THEN <<"/">> ELSE <<>>

\* str(Path(s))
PyPathStr(s) ==
    IF PathRoot(s) = <<>> /\ PathParts(s, <<>>) = <<>> THEN <<".">>
    ELSE PathRoot(s) \o PyJoin(PathParts(s, <<>>), <<"/">>)

\* Path(s): a path is held as its normalised string
PyPath(s) == [t |-> "Path", v |-> PyPathStr(s)]

\* the rule names that have a handler
VALUE_TYPE_HANDLER_REGISTRY ==
    {"logical", "bool", "integer", "float", "double", "identifier", "string", "path"}

\* VALUE_TYPE_HANDLER_REGISTRY[rule].type_check(value)
type_check(rule, value) ==
    CASE rule \in {"logical", "bool"} -> value.t = "bool"
      [] rule = "integer"             -> value.t = "int"
      [] rule \in {"float", "double"} -> value.t = "float"
      [] rule = "identifier"          -> value.t = "str" /\ IsIdentifier(value.v)
      [] rule = "string"              -> value.t = "str"
      [] rule = "path"                -> value.t = "Path"

\* VALUE_TYPE_HANDLER_REGISTRY[rule].from_token(token)
from_token(rule, token) ==
    CASE rule = "logical" -> PyBool(PyLower(token) = <<".", "t", "r", "u", "e", ".">>)
      [] rule = "bool"    -> PyBool(token = <<"T", "r", "u", "e">>)
      [] rule = "integer" -> PyIntV(PyInt(token))
      [] rule = "float"   -> PyFloatV(PyFloat(token))
      [] rule = "double"  ->
            PyFloatV(PyFloat(PyReplace(PyReplace(token, "D", "E"), "d", "e")))
      [] rule = "identifier" -> PyStr(token)
      [] rule = "string"  -> PyStr(SubSeq(token, 2, Len(token) - 1))
      [] rule = "path"    -> PyPath(token)

\* VALUE_TYPE_HANDLER_REGISTRY[rule].to_token(value, token), as the lexeme the
\* rewritten Token holds (Token is a str: an int value is stored as str(value))
to_token(rule, value, token) ==
    CASE rule = "logical" ->
            IF value.v THEN <<".", "t", "r", "u", "e", ".">>
            ELSE <<".", "f", "a", "l", "s", "e", ".">>
      [] rule = "bool"    ->
            IF value.v THEN <<"T", "r", "u", "e">> ELSE <<"F", "a", "l", "s", "e">>
      [] rule = "integer" -> PyStrInt(value.v)
      [] rule \in {"float", "double"} -> float_to_str(value.v, token)
      [] rule = "identifier" -> value.v
      [] rule = "string"  -> <<token[1]>> \o value.v \o <<token[Len(token)]>>
      [] rule = "path"    -> value.v

-----------------------------------------------------------------------------
(* Tokens and the grammar.  The grammar is a line-oriented one that meets  *)
(* the contract ConfigParser documents (rules key, key_value, key_list,    *)
(* key_block, key_null and block; scalar rules of the registry):           *)
(*     start     : line*                                                   *)
(*     line      : [statement] [COMMENT] NEWLINE                           *)
(*     statement : key_value | key_list | key_null | key_block             *)
(*     key_value : key "=" value                                           *)
(*     key_list  : key "=" value ("," value)+                              *)
(*     key_null  : key "="                                                 *)
(*     key_block : key "::" NEWLINE block "::"                             *)
(*     block     : line*            (no key_block inside a block)          *)
(* Punctuation is filtered out of the tree, as Lark does for anonymous     *)
(* tokens; NEWLINE and COMMENT are named terminals and stay in the tree.   *)

Tok(type, value) == [type |-> type, value |-> value]
NEWLINE == Tok("NEWLINE", <<"\n">>)
EQ      == Tok("EQ", <<"=">>)
COMMA   == Tok("COMMA", <<",">>)
BEGIN   == Tok("BEGIN", <<":", ":">>)
END     == Tok("END", <<":", ":">>)
COMMENT == Tok("COMMENT", <<"!", "c">>)
KEY(s)  == Tok("KEY", s)

\* terminal of a value token -> the scalar rule the grammar wraps it in
RuleOfTerminal ==
    [LOGICAL |-> "logical", BOOL |-> "bool", INTEGER |-> "integer",
     FLOAT |-> "float", DOUBLE |-> "double", STRING |-> "string"]
ValueTerminals == DOMAIN RuleOfTerminal

NoToken == Tok("", <<>>)
TreeItem(id) == [kind |-> "Tree", id |-> id, tok |-> NoToken]
TokItem(t)   == [kind |-> "Token", id |-> 0, tok |-> t]

\* a Tree object without the parent attribute
NoParent == 0
MkTree(data, children) == [data |-> data, children |-> children, parent |-> NoParent]

RootId == 1

RECURSIVE SplitLines(_)
\* the lines of a NEWLINE-terminated token sequence, each without its NEWLINE
SplitLines(toks) ==
    IF toks = <<>> THEN <<>>
    ELSE LET k == CHOOSE i \in DOMAIN toks :
                    /\ toks[i].type = "NEWLINE"
                    /\ \A j \in 1..(i - 1) : toks[j].type # "NEWLINE"
         IN  <<SubSeq(toks, 1, k - 1)>> \o SplitLines(SubSeq(toks, k + 1, Len(toks)))

\* append items to the children of node c
AddChildren(ns, c, items) ==
    [ns EXCEPT ![c].children = ns[c].children \o items]

\* the statement tokens of a line: value tokens at 3, 5, ..., commas between
IsValueList(stmt) ==
    /\ Len(stmt) >= 3
    /\ Len(stmt) % 2 = 1
    /\ \A i \in 3..Len(stmt) :
          IF i % 2 = 1 THEN stmt[i].type \in ValueTerminals
          ELSE stmt[i].type = "COMMA"

\* one line of the grammar applied to the parser state
\* acc = [ns |-> arena, cur |-> node the line belongs to, ok |-> no error so far]
ParseLine(acc, line) ==
    LET hasC   == line # <<>> /\ line[Len(line)].type = "COMMENT"
        stmt   == IF hasC THEN SubSeq(line, 1, Len(line) - 1) ELSE line
        trivia == (IF hasC THEN <<TokItem(line[Len(line)])>> ELSE <<>>)
                  \o <<TokItem(NEWLINE)>>
        n      == Len(acc.ns)
        keyT   == MkTree("key", <<TokItem(stmt[1])>>)
        isStmt == Len(stmt) >= 2 /\ stmt[1].type = "KEY"
    IN  IF ~acc.ok THEN acc
        ELSE IF stmt = <<>> THEN
            [acc EXCEPT !.ns = AddChildren(acc.ns, acc.cur, trivia)]
        ELSE IF isStmt /\ stmt[2].type = "EQ" /\ Len(stmt) = 2 THEN
            LET ns1 == acc.ns \o <<keyT, MkTree("key_null", <<TreeItem(n + 1)>>)>>
            IN  [acc EXCEPT !.ns = AddChildren(ns1, acc.cur, <<TreeItem(n + 2)>> \o trivia)]
        ELSE IF isStmt /\ stmt[2].type = "EQ" /\ IsValueList(stmt) THEN
            LET nv   == (Len(stmt) - 1) \div 2
                vals == [i \in 1..nv |->
                           MkTree(RuleOfTerminal[stmt[2 * i + 1].type],
                                  <<TokItem(stmt[2 * i + 1])>>)]
                rule == MkTree(IF nv = 1 THEN "key_value" ELSE "key_list",
                               [i \in 1..(nv + 1) |-> TreeItem(n + i)])
                ns1  == acc.ns \o <<keyT>> \o vals \o <<rule>>
            IN  [acc EXCEPT !.ns = AddChildren(ns1, acc.cur,
                                               <<TreeItem(n + nv + 2)>> \o trivia)]
        ELSE IF isStmt /\ stmt[2].type = "BEGIN" /\ Len(stmt) = 2
                /\ acc.cur = RootId /\ ~hasC THEN
            LET ns1 == acc.ns \o <<keyT, MkTree("block", <<TokItem(NEWLINE)>>),
                                   MkTree("key_block", <<TreeItem(n + 1), TreeItem(n + 2)>>)>>
            IN  [acc EXCEPT !.ns = AddChildren(ns1, acc.cur, <<TreeItem(n + 3)>>),
                            !.cur = n + 2]
        ELSE IF stmt = <<END>> /\ acc.cur # RootId THEN
            [acc EXCEPT !.ns = AddChildren(acc.ns, RootId, trivia), !.cur = RootId]
        ELSE [acc EXCEPT !.ok = FALSE]

RECURSIVE ParseLines(_, _)
ParseLines(acc, lines) ==
    IF lines = <<>> THEN acc
    ELSE ParseLines(ParseLine(acc, Head(lines)), Tail(lines))

\* Lark(grammar).parse(stream): [ok |-> accepted, ns |-> the tree, rooted at RootId]
LarkParse(stream) ==
    LET Result(r) == [ok |-> r.ok /\ r.cur = RootId, ns |-> r.ns]
    IN  IF stream = <<>> \/ stream[Len(stream)].type # "NEWLINE"
        THEN [ok |-> FALSE, ns |-> <<>>]
        ELSE Result(ParseLines([ns |-> <<MkTree("start", <<>>)>>, cur |-> RootId,
                                ok |-> TRUE],
                               SplitLines(stream)))

RECURSIVE Reconstruct(_, _)
\* Reconstructor.reconstruct(tree): the tokens of the tree in order, with the
\* punctuation of each rule written back
Reconstruct(ns, id) ==
    LET ch == ns[id].children
        RECURSIVE Items(_)
        Items(i) == IF i > Len(ch) THEN <<>>
                    ELSE (IF ch[i].kind = "Token" THEN <<ch[i].tok>>
                          ELSE Reconstruct(ns, ch[i].id)) \o Items(i + 1)
        RECURSIVE Values(_)
        Values(i) == IF i > Len(ch) THEN <<>>
                     ELSE (IF i > 2 THEN <<COMMA>> ELSE <<>>)
                          \o Reconstruct(ns, ch[i].id) \o Values(i + 1)
    IN  CASE ns[id].data \in {"key_value", "key_list"} ->
                Reconstruct(ns, ch[1].id) \o <<EQ>> \o Values(2)
          [] ns[id].data = "key_null" ->
                Reconstruct(ns, ch[1].id) \o <<EQ>>
          [] ns[id].data = "key_block" ->
                Reconstruct(ns, ch[1].id) \o <<BEGIN>> \o Reconstruct(ns, ch[2].id) \o <<END>>
          [] OTHER -> Items(1)

\* the Tree children of a node
TreeChildren(ns, id) ==
    {ns[id].children[i].id : i \in {j \in DOMAIN ns[id].children :
                                       ns[id].children[j].kind = "Tree"}}

RECURSIVE Subtrees(_, _)
\* Tree.iter_subtrees(): the node and every Tree below it
Subtrees(ns, id) ==
    {id} \cup UNION {Subtrees(ns, c) : c \in TreeChildren(ns, id)}

\* a visit that stops below the statements: only they get their parent
AddParent_shallow(ns, tree) ==
    [id \in DOMAIN ns |->
        IF id \in TreeChildren(ns, tree) THEN [ns[id] EXCEPT !.parent = tree] ELSE ns[id]]

\* AddParent().visit(tree): every Tree child of every subtree gets its parent
AddParent(ns, tree) ==
    [id \in DOMAIN ns |->
        IF \E p \in Subtrees(ns, tree) : id \in TreeChildren(ns, p)
        THEN [ns[id] EXCEPT !.parent =
                 CHOOSE p \in Subtrees(ns, tree) : id \in TreeChildren(ns, p)]
        ELSE ns[id]]

-----------------------------------------------------------------------------
(* Python dicts: a function from keys to values *)

EmptyDict == [k \in {} |-> 0]
DictPut(f, k, v) == [x \in (DOMAIN f) \cup {k} |-> IF x = k THEN v ELSE f[x]]
DictDel(f, k) == [x \in (DOMAIN f) \ {k} |-> f[x]]
SeqRemove(s, k) == LET Keep(x) == x # k IN SelectSeq(s, Keep)

\* a reference of Config._refs: one Tree, or a list of Trees
NodeRef(id)  == [list |-> FALSE, ids |-> <<id>>]
ListRef(ids) == [list |-> TRUE, ids |-> ids]

-----------------------------------------------------------------------------
(* ConfigToDict *)

\* ConfigToDict._get_key(tree)
get_key(ns, tree, cs) ==
    LET ch  == ns[tree].children
        i   == CHOOSE i \in DOMAIN ch :
                  /\ ns[ch[i].id].data = "key"
                  /\ \A j \in 1..(i - 1) : ns[ch[j].id].data # "key"
        key == ns[ch[i].id].children[1].tok.value
    IN  IF cs THEN key ELSE PyUpper(key)

\* ConfigToDict._transform_values(children): the value nodes among the children
transform_values(ns, children) ==
    LET IsValue(c) == ns[c.id].data \in VALUE_TYPE_HANDLER_REGISTRY
        refs == SelectSeq(children, IsValue)
    IN  [err    |-> IF Len(refs) = 0 THEN "ValueError" ELSE "none",
         values |-> [i \in DOMAIN refs |->
                        from_token(ns[refs[i].id].data, ns[refs[i].id].children[1].tok.value)],
         refs   |-> [i \in DOMAIN refs |-> refs[i].id]]

\* ConfigToDict._transform_value(children) taking the first value of several
transform_value_first(ns, children) == transform_values(ns, children)

\* ConfigToDict._transform_value(children)
transform_value(ns, children) ==
    LET Single(r) == IF r.err = "none" /\ Len(r.refs) > 1
                     THEN [r EXCEPT !.err = "ValueError"] ELSE r
    IN  Single(transform_values(ns, children))

\* the assignment leaving a key that is already there as it is
Record_first(acc, key, value, ref) ==
    IF key \in DOMAIN acc.data THEN acc
    ELSE [acc EXCEPT !.data  = DictPut(acc.data, key, value),
                     !.refs  = DictPut(acc.refs, key, ref),
                     !.order = Append(acc.order, key)]

\* self._data[key], self._refs[key] = value, ref   (dict order: first insertion)
Record(acc, key, value, ref) ==
    [acc EXCEPT !.data  = DictPut(acc.data, key, value),
                !.refs  = DictPut(acc.refs, key, ref),
                !.order = IF key \in DOMAIN acc.data THEN acc.order
                          ELSE Append(acc.order, key)]

\* ConfigToDict.key_list(tree)
key_list(ns, tree, cs, acc) ==
    LET Store(r) ==
            IF r.err # "none" THEN [acc EXCEPT !.err = r.err]
            ELSE Record(acc, get_key(ns, tree, cs), PyList(r.values), ListRef(r.refs))
    IN  Store(transform_values(ns, ns[tree].children))

\* ConfigToDict.key_value(tree)
key_value(ns, tree, cs, acc) ==
    LET Store(r) ==
            IF r.err # "none" THEN [acc EXCEPT !.err = r.err]
            ELSE Record(acc, get_key(ns, tree, cs), r.values[1], NodeRef(r.refs[1]))
    IN  Store(transform_value(ns, ns[tree].children))

\* ConfigToDict.key_block(tree): the first block child backs a nested Config
key_block(ns, tree, cs, acc) ==
    LET ch == ns[tree].children
    IN  IF \E i \in DOMAIN ch : ns[ch[i].id].data = "block"
        THEN LET i == CHOOSE i \in DOMAIN ch :
                        /\ ns[ch[i].id].data = "block"
                        /\ \A j \in 1..(i - 1) : ns[ch[j].id].data # "block"
             IN  Record(acc, get_key(ns, tree, cs),
                        [t |-> "Config", v |-> ch[i].id], NodeRef(ch[i].id))
        ELSE acc

\* ConfigToDict.key_null(tree)
key_null(ns, tree, cs, acc) ==
    Record(acc, get_key(ns, tree, cs), PyNone, NodeRef(tree))

RECURSIVE visit_children(_, _, _, _)
\* Interpreter.visit_children: Tree children in order, each dispatched on its
\* rule name; a Tree without a handler is descended into
visit_children(ns, children, cs, acc) ==
    IF children = <<>> \/ acc.err # "none" THEN acc
    ELSE LET c    == Head(children)
             rule == ns[c.id].data
             acc1 == IF c.kind = "Token" THEN acc
                     ELSE CASE rule = "key_list"  -> key_list(ns, c.id, cs, acc)
                            [] rule = "key_value" -> key_value(ns, c.id, cs, acc)
                            [] rule = "key_block" -> key_block(ns, c.id, cs, acc)
                            [] rule = "key_null"  -> key_null(ns, c.id, cs, acc)
                            [] OTHER -> visit_children(ns, ns[c.id].children, cs, acc)
         IN  visit_children(ns, Tail(children), cs, acc1)

\* ConfigToDict.visit(tree): (data, refs), with dict order and the error raised
ConfigToDict_visit(ns, tree, cs) ==
    visit_children(ns, ns[tree].children, cs,
                   [data |-> EmptyDict, refs |-> EmptyDict, order |-> <<>>, err |-> "none"])

-----------------------------------------------------------------------------
(* Config *)

\* ConfigList.__init__(data, refs)
ConfigList_init(data, refs) == [data |-> data, refs |-> refs]

\* Config._normalize_key returning the key as given
normalize_key_raw(cs, key) == key

\* Config._normalize_key(key)
normalize_key(cs, key) == IF cs THEN key ELSE PyUpper(key)

\* the keys of a visit whose value is a list, in dict order
ListKeys(v) == LET IsList(k) == v.data[k].t = "list" IN SelectSeq(v.order, IsList)
\* the Config objects a visit creates for its blocks, in dict order
BlockIds(v) == LET IsBlock(k) == v.data[k].t = "Config"
                   ks == SelectSeq(v.order, IsBlock)
               IN  [i \in DOMAIN ks |-> v.data[ks[i]].v]

RECURSIVE ListSlots(_, _)
\* the (Config, key) pairs that get a ConfigList, in the order they are created;
\* V[d] is the visit of the tree of Config d
ListSlots(ids, V) ==
    IF ids = <<>> THEN <<>>
    ELSE [i \in DOMAIN ListKeys(V[Head(ids)]) |-> <<Head(ids), ListKeys(V[Head(ids)])[i]>>]
         \o ListSlots(Tail(ids), V)

SlotOf(slots, d, k) == CHOOSE i \in DOMAIN slots : slots[i] = <<d, k>>

\* Config.__init__(tree, reconstructor, case_sensitive_keys) for the root and,
\* through key_block, for every block: the Config objects and the ConfigList
\* objects that wrap their list values
Config_init(ns, cs) ==
    LET Build(ids, V, slots) ==
            [err   |-> IF \E d \in DOMAIN V : V[d].err # "none"
                       THEN "ValueError" ELSE "none",
             docs  |-> [d \in DOMAIN V |->
                          [tree  |-> d,
                           data  |-> [k \in DOMAIN V[d].data |->
                                        IF V[d].data[k].t = "list"
                                        THEN [t |-> "ConfigList", v |-> SlotOf(slots, d, k)]
                                        ELSE V[d].data[k]],
                           refs  |-> V[d].refs,
                           order |-> V[d].order]],
             lists |-> [i \in DOMAIN slots |->
                          ConfigList_init(V[slots[i][1]].data[slots[i][2]].v,
                                          V[slots[i][1]].refs[slots[i][2]].ids)]]
        Visited(ids, V) == Build(ids, V, ListSlots(ids, V))
        Configs(ids) ==
            Visited(ids, [d \in {ids[i] : i \in DOMAIN ids} |-> ConfigToDict_visit(ns, d, cs)])
    IN  Configs(<<RootId>> \o BlockIds(ConfigToDict_visit(ns, RootId, cs)))

\* ConfigParser.parse(stream)
ConfigParser_parse(stream, cs) ==
    LET Made(ns, cfg) ==
            [ok |-> cfg.err = "none", ns |-> ns, docs |-> cfg.docs, lists |-> cfg.lists]
        Annotated(ns) == Made(ns, Config_init(ns, cs))
        Accepted(t) ==
            IF ~t.ok THEN [ok |-> FALSE, ns |-> <<>>, docs |-> EmptyDict, lists |-> <<>>]
            ELSE Annotated(AddParent(t.ns, RootId))
    IN  Accepted(LarkParse(stream \o <<NEWLINE>>))

\* Config._reconstruct() stripping every trailing newline (str.rstrip)
Config_reconstruct_rstrip(ns, doc) ==
    LET reconstructed == Reconstruct(ns, doc.tree)
        IsLast(i) == /\ \A j \in (i + 1)..Len(reconstructed) : reconstructed[j] = NEWLINE
                     /\ (i > 0 => reconstructed[i] # NEWLINE)
    IN  SubSeq(reconstructed, 1, CHOOSE i \in 0..Len(reconstructed) : IsLast(i))

\* Config._reconstruct()
Config_reconstruct(ns, doc) ==
    LET Strip(reconstructed) ==
            IF reconstructed # <<>> /\ reconstructed[Len(reconstructed)] = NEWLINE
            THEN SubSeq(reconstructed, 1, Len(reconstructed) - 1)
            ELSE reconstructed
    IN  Strip(Reconstruct(ns, doc.tree))

\* Tree.__deepcopy__: copies of the subtrees of id appended to the arena (new
\* objects); the copy of node n is at NewId(n), and carries no parent attribute
DeepCopy(ns, id) ==
    LET S        == Subtrees(ns, id)
        Rank(n)  == Cardinality({m \in S : m <= n})
        NewId(n) == Len(ns) + Rank(n)
        CopyOf(n) ==
            [data     |-> ns[n].data,
             children |-> [j \in DOMAIN ns[n].children |->
                             IF ns[n].children[j].kind = "Tree"
                             THEN TreeItem(NewId(ns[n].children[j].id))
                             ELSE ns[n].children[j]],
             parent   |-> NoParent]
    IN  [ns   |-> ns \o [r \in 1..Cardinality(S) |->
                           CopyOf(CHOOSE n \in S : Rank(n) = r)],
         root |-> NewId(id)]

\* what Reconstructor.reconstruct leaves of the tree it is given: it works in
\* place, and every subtree ends up holding the tokens written for it
ReconstructInPlace(ns, id) ==
    [n \in DOMAIN ns |->
        IF n \in Subtrees(ns, id)
        THEN [ns[n] EXCEPT !.children =
                 [j \in DOMAIN Reconstruct(ns, n) |-> TokItem(Reconstruct(ns, n)[j])]]
        ELSE ns[n]]

\* Config._reconstruct() handing self._tree itself to the reconstructor
Config_reconstruct_tree_nocopy(ns, doc) == ReconstructInPlace(ns, doc.tree)

\* Config._reconstruct(): the trees of the program after the call; the
\* reconstructor worked on a deep copy, which is dropped on return
Config_reconstruct_tree(ns, doc) ==
    LET Kept(copy) == SubSeq(ReconstructInPlace(copy.ns, copy.root), 1, Len(ns))
    IN  Kept(DeepCopy(ns, doc.tree))

\* Config.__str__()
Config_str(ns, doc) ==
    IF DOMAIN doc.data = {} THEN <<>> ELSE Config_reconstruct(ns, doc)

-----------------------------------------------------------------------------
(* Tree updates *)

\* _update_node_value rewriting the token of a copy of the branch
update_node_value_detached(ns, branch, value) ==
    IF branch.list \/ ns[branch.ids[1]].data \notin VALUE_TYPE_HANDLER_REGISTRY
       \/ ~type_check(ns[branch.ids[1]].data, value)
    THEN [err |-> "TypeError", ns |-> ns]
    ELSE [err |-> "none", ns |-> ns]

\* _update_node_value with the boolean handlers coercing an int (bool(value))
\* where the code compares types
update_node_value_coerce(ns, branch, value) ==
    LET id    == branch.ids[1]
        rule  == ns[id].data
        token == ns[id].children[1].tok
        v     == IF rule \in {"logical", "bool"} /\ value.t = "int"
                 THEN PyBool(value.v # 0) ELSE value
    IN  IF branch.list \/ rule \notin VALUE_TYPE_HANDLER_REGISTRY
           \/ ~type_check(rule, v)
        THEN [err |-> "TypeError", ns |-> ns]
        ELSE [err |-> "none",
              ns  |-> [ns EXCEPT ![id].children[1] =
                          TokItem(Tok(token.type, to_token(rule, v, token.value)))]]

\* _update_node_value(branch, value): [err, ns]; branch is a reference
update_node_value(ns, branch, value) ==
    LET id    == branch.ids[1]
        rule  == ns[id].data
        token == ns[id].children[1].tok
    IN  IF branch.list \/ rule \notin VALUE_TYPE_HANDLER_REGISTRY
           \/ ~type_check(rule, value)
        THEN [err |-> "TypeError", ns |-> ns]
        ELSE [err |-> "none",
              ns  |-> [ns EXCEPT ![id].children[1] =
                          TokItem(Tok(token.type, to_token(rule, value, token.value)))]]

\* the loop without the call of _update_node_value
update_each_none(ns, refs, values) == [err |-> "none", ns |-> ns]

RECURSIVE update_each(_, _, _)
\* for branch, v in zip(refs, values): _update_node_value(branch, v)
\* stops at the first element that raises, keeping what was already rewritten
update_each(ns, refs, values) ==
    LET Then(r) == IF r.err # "none" THEN r
                   ELSE update_each(r.ns, Tail(refs), Tail(values))
    IN  IF refs = <<>> THEN [err |-> "none", ns |-> ns]
        ELSE Then(update_node_value(ns, NodeRef(Head(refs)), Head(values)))

\* the elements of a list value: list(value)
Elements(ls, value) == IF value.t = "ConfigList" THEN ls[value.v].data ELSE value.v

\* Config._update_list_value without the length check, zip stopping at the
\* shorter of the two
update_list_value_nolen(ns, ls, doc, key, value) ==
    LET refs == doc.refs[key]
        vs   == Elements(ls, value)
        n    == IF Len(vs) < Len(refs.ids) THEN Len(vs) ELSE Len(refs.ids)
    IN  IF ~refs.list THEN [err |-> "TypeError", ns |-> ns]
        ELSE update_each(ns, SubSeq(refs.ids, 1, n), SubSeq(vs, 1, n))

\* Config._update_list_value(key, value): [err, ns]
update_list_value(ns, ls, doc, key, value) ==
    LET refs == doc.refs[key]
    IN  IF ~refs.list THEN [err |-> "TypeError", ns |-> ns]
        ELSE IF Len(refs.ids) # Len(Elements(ls, value))
        THEN [err |-> "ValueError", ns |-> ns]
        ELSE update_each(ns, refs.ids, Elements(ls, value))

\* _find_rule_node(ref)
find_rule_node(ns, ref) ==
    IF ref.list THEN ns[ref.ids[1]].parent
    ELSE IF ns[ref.ids[1]].data \in {"key_value", "key_list", "key_block", "key_null"}
    THEN ref.ids[1]
    ELSE ns[ref.ids[1]].parent

RECURSIVE Shape(_, _)
\* what Tree.__eq__ compares: the rule name and the children, recursively
Shape(ns, id) ==
    <<ns[id].data,
      [i \in DOMAIN ns[id].children |->
          IF ns[id].children[i].kind = "Token"
          THEN [kind |-> "Token", tok |-> ns[id].children[i].tok, sub |-> <<>>]
          ELSE [kind |-> "Tree", tok |-> NoToken,
                sub |-> Shape(ns, ns[id].children[i].id)]]>>

\* index of the first child of p that == rule (0: none), as list.remove finds it
FirstEqualChild(ns, p, rule) ==
    LET ch    == ns[p].children
        Eq(i) == ch[i].kind = "Tree" /\ Shape(ns, ch[i].id) = Shape(ns, rule)
    IN  IF \E i \in DOMAIN ch : Eq(i)
        THEN CHOOSE i \in DOMAIN ch : Eq(i) /\ \A j \in 1..(i - 1) : ~Eq(j)
        ELSE 0

DropAt(s, i) == SubSeq(s, 1, i - 1) \o SubSeq(s, i + 1, Len(s))

-----------------------------------------------------------------------------
(* Config: dict overrides.  Each returns the outcome of the whole call:    *)
(* [err, result, ns, docs, lists]                                          *)

Outcome(err, result, ns, ds, ls) ==
    [err |-> err, result |-> result, ns |-> ns, docs |-> ds, lists |-> ls]

\* Config.__getitem__(key)
Config_getitem(ns, ds, ls, d, key) ==
    LET Lookup(k) ==
            IF k \notin DOMAIN ds[d].data THEN Outcome("KeyError", PyNone, ns, ds, ls)
            ELSE Outcome("none", ds[d].data[k], ns, ds, ls)
    IN  Lookup(normalize_key(caseSensitive, key))

\* key in config: Config does not override __contains__, so this is
\* dict.__contains__, a lookup of the key as given
Config_contains(ns, ds, ls, d, key) ==
    Outcome("none", PyBool(key \in DOMAIN ds[d].data), ns, ds, ls)

\* Config.__setitem__ on a present key without the `self[key] is None` branch:
\* a null slot is treated like any scalar slot
Config_setitem_present_nonull(ns, ds, ls, d, k, value) ==
    LET ListDone(r) ==
            IF r.err # "none" THEN Outcome(r.err, PyNone, r.ns, ds, ls)
            ELSE Outcome("none", PyNone, r.ns, ds,
                         [ls EXCEPT ![ds[d].data[k].v] =
                             ConfigList_init(Elements(ls, value), ds[d].refs[k].ids)])
        ScalarDone(r) ==
            IF r.err # "none" THEN Outcome(r.err, PyNone, r.ns, ds, ls)
            ELSE Outcome("none", PyNone, r.ns, [ds EXCEPT ![d].data[k] = value], ls)
    IN  IF IsInstanceDict(value) THEN Outcome("SyntaxError", PyNone, ns, ds, ls)
        ELSE IF IsInstanceList(value) THEN ListDone(update_list_value(ns, ls, ds[d], k, value))
        ELSE ScalarDone(update_node_value(ns, ds[d].refs[k], value))

\* Config.__setitem__ on a present key without the isinstance(value, dict)
\* branch: a dict falls through to _update_node_value
Config_setitem_present_nodict(ns, ds, ls, d, k, value) ==
    LET ListDone(r) ==
            IF r.err # "none" THEN Outcome(r.err, PyNone, r.ns, ds, ls)
            ELSE Outcome("none", PyNone, r.ns, ds,
                         [ls EXCEPT ![ds[d].data[k].v] =
                             ConfigList_init(Elements(ls, value), ds[d].refs[k].ids)])
        ScalarDone(r) ==
            IF r.err # "none" THEN Outcome(r.err, PyNone, r.ns, ds, ls)
            ELSE Outcome("none", PyNone, r.ns, [ds EXCEPT ![d].data[k] = value], ls)
    IN  IF ds[d].data[k] = PyNone THEN
            IF value = PyNone THEN Outcome("none", PyNone, ns, ds, ls)
            ELSE Outcome("TypeError", PyNone, ns, ds, ls)
        ELSE IF IsInstanceList(value) THEN ListDone(update_list_value(ns, ls, ds[d], k, value))
        ELSE ScalarDone(update_node_value(ns, ds[d].refs[k], value))

\* Config.__setitem__(key, value) once the key is known to be present
\* (k is the normalised key)
Config_setitem_present(ns, ds, ls, d, k, value) ==
    LET ListDone(r) ==
            IF r.err # "none" THEN Outcome(r.err, PyNone, r.ns, ds, ls)
            ELSE Outcome("none", PyNone, r.ns, ds,
                         [ls EXCEPT ![ds[d].data[k].v] =
                             ConfigList_init(Elements(ls, value), ds[d].refs[k].ids)])
        ScalarDone(r) ==
            IF r.err # "none" THEN Outcome(r.err, PyNone, r.ns, ds, ls)
            ELSE Outcome("none", PyNone, r.ns, [ds EXCEPT ![d].data[k] = value], ls)
    IN  IF ds[d].data[k] = PyNone THEN
            IF value = PyNone THEN Outcome("none", PyNone, ns, ds, ls)
            ELSE Outcome("TypeError", PyNone, ns, ds, ls)
        ELSE IF IsInstanceDict(value) THEN Outcome("SyntaxError", PyNone, ns, ds, ls)
        ELSE IF IsInstanceList(value) THEN ListDone(update_list_value(ns, ls, ds[d], k, value))
        ELSE ScalarDone(update_node_value(ns, ds[d].refs[k], value))

\* Config.__setitem__ behaving as dict.__setitem__ on a key that is not present
Config_setitem_insert(ns, ds, ls, d, key, value) ==
    LET k == normalize_key(caseSensitive, key)
    IN  IF k \notin DOMAIN ds[d].data
        THEN Outcome("none", PyNone, ns,
                     [ds EXCEPT ![d].data = DictPut(ds[d].data, k, value),
                                ![d].order = Append(ds[d].order, k)], ls)
        ELSE Config_setitem_present(ns, ds, ls, d, k, value)

\* Config.__setitem__(key, value)
Config_setitem(ns, ds, ls, d, key, value) ==
    LET Assign(k) ==
            IF k \notin DOMAIN ds[d].data THEN Outcome("KeyError", PyNone, ns, ds, ls)
            ELSE Config_setitem_present(ns, ds, ls, d, k, value)
    IN  Assign(normalize_key(caseSensitive, key))

\* Config.__delitem__ without its last statement, del self._refs[key]
Config_delitem_keeprefs(ns, ds, ls, d, key) ==
    LET k     == normalize_key(caseSensitive, key)
        rule  == find_rule_node(ns, ds[d].refs[k])
        p     == ns[rule].parent
        i     == FirstEqualChild(ns, p, rule)
        ds1   == [ds EXCEPT ![d].data = DictDel(ds[d].data, k),
                            ![d].order = SeqRemove(ds[d].order, k)]
    IN  IF k \notin DOMAIN ds[d].data THEN Outcome("KeyError", PyNone, ns, ds, ls)
        ELSE IF i = 0 THEN Outcome("ValueError", PyNone, ns, ds1, ls)
        ELSE Outcome("none", PyNone,
                     [ns EXCEPT ![p].children = DropAt(ns[p].children, i)], ds1, ls)

\* Config.__delitem__(key)
Config_delitem(ns, ds, ls, d, key) ==
    LET Removed(k, ds1, p, i) ==
            IF i = 0 THEN Outcome("ValueError", PyNone, ns, ds1, ls)
            ELSE Outcome("none", PyNone,
                         [ns EXCEPT ![p].children = DropAt(ns[p].children, i)],
                         [ds1 EXCEPT ![d].refs = DictDel(ds[d].refs, k)], ls)
        Remove(k, ds1, rule) ==
            Removed(k, ds1, ns[rule].parent, FirstEqualChild(ns, ns[rule].parent, rule))
        Delete(k) ==
            IF k \notin DOMAIN ds[d].data THEN Outcome("KeyError", PyNone, ns, ds, ls)
            ELSE Remove(k,
                        [ds EXCEPT ![d].data = DictDel(ds[d].data, k),
                                   ![d].order = SeqRemove(ds[d].order, k)],
                        find_rule_node(ns, ds[d].refs[k]))
    IN  Delete(normalize_key(caseSensitive, key))

-----------------------------------------------------------------------------
(* ConfigList.  Indices are Python's: 0-based, a slice [a:b] is half-open. *)

\* s[a:b] for 0 <= a, 0 <= b
PySlice(s, a, b) ==
    LET lo == IF a > Len(s) THEN Len(s) ELSE a
        hi == IF b > Len(s) THEN Len(s) ELSE b
    IN  IF hi <= lo THEN <<>> ELSE SubSeq(s, lo + 1, hi)

\* list.__setitem__(slice(a, b), values)
PySetSlice(s, a, b, values) ==
    LET lo == IF a > Len(s) THEN Len(s) ELSE a
        hi == IF b > Len(s) THEN Len(s) ELSE b
        h2 == IF hi < lo THEN lo ELSE hi
    IN  SubSeq(s, 1, lo) \o values \o SubSeq(s, h2 + 1, Len(s))

\* ConfigList.__setitem__ with an integer index rewriting the node of the
\* first reference instead of self._refs[index]
ConfigList_setitem_first(ns, ds, ls, l, index, value) ==
    LET Updated(r) ==
            IF r.err # "none" THEN Outcome(r.err, PyNone, r.ns, ds, ls)
            ELSE IF index >= Len(ls[l].data)
            THEN Outcome("IndexError", PyNone, r.ns, ds, ls)
            ELSE Outcome("none", PyNone, r.ns, ds,
                         [ls EXCEPT ![l].data[index + 1] = value])
    IN  IF index >= Len(ls[l].refs) THEN Outcome("IndexError", PyNone, ns, ds, ls)
        ELSE Updated(update_node_value(ns, NodeRef(ls[l].refs[1]), value))

\* ConfigList.__setitem__(index, value) with an integer index >= 0
ConfigList_setitem(ns, ds, ls, l, index, value) ==
    LET Updated(r) ==
            IF r.err # "none" THEN Outcome(r.err, PyNone, r.ns, ds, ls)
            ELSE IF index >= Len(ls[l].data)
            THEN Outcome("IndexError", PyNone, r.ns, ds, ls)
            ELSE Outcome("none", PyNone, r.ns, ds,
                         [ls EXCEPT ![l].data[index + 1] = value])
    IN  IF index >= Len(ls[l].refs) THEN Outcome("IndexError", PyNone, ns, ds, ls)
        ELSE Updated(update_node_value(ns, NodeRef(ls[l].refs[index + 1]), value))

\* ConfigList.__setitem__(slice(a, b), value)
ConfigList_setslice(ns, ds, ls, l, a, b, value) ==
    LET Updated(r, values) ==
            IF r.err # "none" THEN Outcome(r.err, PyNone, r.ns, ds, ls)
            ELSE Outcome("none", PyNone, r.ns, ds,
                         [ls EXCEPT ![l].data = PySetSlice(ls[l].data, a, b, values)])
        Assign(refs_slice, values) ==
            IF Len(values) # Len(refs_slice) THEN Outcome("ValueError", PyNone, ns, ds, ls)
            ELSE Updated(update_each(ns, refs_slice, values), values)
    IN  Assign(PySlice(ls[l].refs, a, b), Elements(ls, value))

\* list.append(value), which ConfigList inherits
ConfigList_append(ns, ds, ls, l, value) ==
    Outcome("none", PyNone, ns, ds, [ls EXCEPT ![l].data = Append(ls[l].data, value)])

\* list.pop(), which ConfigList inherits
ConfigList_pop(ns, ds, ls, l) ==
    IF ls[l].data = <<>> THEN Outcome("IndexError", PyNone, ns, ds, ls)
    ELSE Outcome("none", ls[l].data[Len(ls[l].data)], ns, ds,
                 [ls EXCEPT ![l].data = SubSeq(ls[l].data, 1, Len(ls[l].data) - 1)])

-----------------------------------------------------------------------------
(* The texts parsed *)

Ch(c) == <<c>>
Foo == <<"F", "o", "o">>
DotTrue(s) == Tok("LOGICAL", s)
INT(c) == Tok("INTEGER", <<c>>)

Texts ==
    << \* the empty text
       <<>>,
       \* ! c
       <<COMMENT>>,
       \* Foo = .TRUE.
       <<KEY(Foo), EQ, DotTrue(<<".", "T", "R", "U", "E", ".">>)>>,
       \* A = 1 / C:: / D = .true. / ::
       <<KEY(Ch("A")), EQ, INT("1"), NEWLINE,
         KEY(Ch("C")), BEGIN, NEWLINE,
         KEY(Ch("D")), EQ, DotTrue(<<".", "t", "r", "u", "e", ".">>), NEWLINE,
         END, NEWLINE>>,
       \* B = 2,3,4
       <<KEY(Ch("B")), EQ, INT("2"), COMMA, INT("3"), COMMA, INT("4")>>,
       \* X = 1 / x = 2 ! c
       <<KEY(Ch("X")), EQ, INT("1"), NEWLINE, KEY(Ch("x")), EQ, INT("2"), COMMENT>>,
       \* X = 1 / Y = 3 / X = 1
       <<KEY(Ch("X")), EQ, INT("1"), NEWLINE, KEY(Ch("Y")), EQ, INT("3"), NEWLINE,
         KEY(Ch("X")), EQ, INT("1")>>,
       \* N = / F = 1.000000D-08
       <<KEY(Ch("N")), EQ, NEWLINE,
         KEY(Ch("F")), EQ,
         Tok("DOUBLE", <<"1", ".", "0", "0", "0", "0", "0", "0", "D", "-", "0", "8">>)>>,
       \* S = 'a' / T = True
       <<KEY(Ch("S")), EQ, Tok("STRING", <<"'", "a", "'">>), NEWLINE,
         KEY(Ch("T")), EQ, Tok("BOOL", <<"T", "r", "u", "e">>), NEWLINE>>
    >>

-----------------------------------------------------------------------------
(* State machine.  A call runs to its end in one step and leaves its       *)
(* record in last; Return hands control back to the caller, who makes the  *)
(* next call.                                                              *)

NoIndex == [a |-> 0, b |-> 0]
NoSnapshot == [nodes |-> <<>>, docs |-> EmptyDict, lists |-> <<>>]
Call(op, d, l, key, value, index, err, result, pre) ==
    [op |-> op, doc |-> d, lst |-> l, key |-> key, value |-> value, index |-> index,
     err |-> err, result |-> result, pre |-> pre]
Idle == Call("idle", 0, 0, <<>>, PyNone, NoIndex, "none", PyNone, NoSnapshot)

Snapshot == [nodes |-> nodes, docs |-> docs, lists |-> lists]

\* no call of the layout generators, no call of the profiling parser
NoLayout == [fn |-> "none"]
NoProfile == [fn |-> "none"]

Init ==
    /\ text \in {Texts[i] : i \in DOMAIN Texts}
    /\ caseSensitive \in BOOLEAN
    /\ LET r == ConfigParser_parse(text, caseSensitive)
       IN  /\ r.ok
           /\ nodes = r.ns
           /\ docs = r.docs
           /\ lists = r.lists
           /\ last = Call("parse", RootId, 0, <<>>, PyNone, NoIndex, "none", PyNone,
                          NoSnapshot)
    /\ layout = NoLayout
    /\ profile = NoProfile

\* the call has run to its end: record it with the state it started from
Done(op, d, l, key, value, index, o) ==
    /\ last = Idle
    /\ nodes' = o.ns
    /\ docs' = o.docs
    /\ lists' = o.lists
    /\ last' = Call(op, d, l, key, value, index, o.err, o.result, Snapshot)
    /\ UNCHANGED <<text, caseSensitive, layout, profile>>

\* the keys a caller passes: the keys of the text and the spellings of Foo
TextKeys == {text[i].value : i \in {j \in DOMAIN text : text[j].type = "KEY"}}
KeyInputs == TextKeys \cup {Foo, PyUpper(Foo), PyLower(Foo)}

\* the values a caller passes
Minus8 == [m |-> -8, e |-> 0]
ScalarInputs == {PyBool(TRUE), PyBool(FALSE), PyIntV(1), PyFloatV(Minus8), PyStr(<<"x">>)}
ItemInputs == {PyIntV(30), PyStr(<<"x">>)}
ListInputs == {PyList(<<PyIntV(30), PyIntV(30), PyIntV(30)>>),
               PyList(<<PyIntV(30), PyIntV(30)>>),
               PyList(<<PyIntV(30), PyStr(<<"x">>), PyIntV(30)>>),
               PyList(<<PyIntV(30), PyStr(<<"x">>)>>)}
TupleInputs == {PyTuple(<<PyIntV(30), PyIntV(30), PyIntV(30)>>)}
SetInputs == ScalarInputs \cup ListInputs \cup TupleInputs \cup {PyNone, PyDict}
SliceInputs == {<<0, 2>>, <<1, 3>>}
AppendInputs == {PyIntV(30)}

\* str(config)
Str(d) ==
    Done("str", d, 0, <<>>, PyNone, NoIndex,
         Outcome("none", [t |-> "text", v |-> Config_str(nodes, docs[d])],
                 IF DOMAIN docs[d].data = {} THEN nodes
                 ELSE Config_reconstruct_tree(nodes, docs[d]),
                 docs, lists))

\* config[key]
Get(d, key) ==
    Done("get", d, 0, key, PyNone, NoIndex, Config_getitem(nodes, docs, lists, d, key))

\* key in config
Contains(d, key) ==
    Done("contains", d, 0, key, PyNone, NoIndex,
         Config_contains(nodes, docs, lists, d, key))

\* config[key] = value
Set(d, key, value) ==
    Done("set", d, 0, key, value, NoIndex,
         Config_setitem(nodes, docs, lists, d, key, value))

\* config[key] = config[key]
SetGet(d, key) ==
    LET Assign(g) ==
            /\ g.err = "none"
            /\ Done("setget", d, 0, key, g.result, NoIndex,
                    Config_setitem(nodes, docs, lists, d, key, g.result))
    IN  Assign(Config_getitem(nodes, docs, lists, d, key))

\* del config[key]
Del(d, key) ==
    Done("del", d, 0, key, PyNone, NoIndex, Config_delitem(nodes, docs, lists, d, key))

\* lst[index] = value
ListSetItem(l, index, value) ==
    Done("list_setitem", 0, l, <<>>, value, [a |-> index, b |-> index + 1],
         ConfigList_setitem(nodes, docs, lists, l, index, value))

\* lst[a:b] = value
ListSetSlice(l, a, b, value) ==
    Done("list_setslice", 0, l, <<>>, value, [a |-> a, b |-> b],
         ConfigList_setslice(nodes, docs, lists, l, a, b, value))

\* lst.append(value)
ListAppend(l, value) ==
    /\ Len(lists[l].data) < MaxListLen
    /\ Done("list_append", 0, l, <<>>, value, NoIndex,
            ConfigList_append(nodes, docs, lists, l, value))

\* lst.pop()
ListPop(l) ==
    Done("list_pop", 0, l, <<>>, PyNone, NoIndex, ConfigList_pop(nodes, docs, lists, l))

\* the call returns (or raises) to the caller
Return ==
    /\ last # Idle
    /\ last' = Idle
    /\ UNCHANGED <<text, caseSensitive, nodes, docs, lists, layout, profile>>

Next ==
    \/ Return
    \/ \E d \in DOMAIN docs : Str(d)
    \/ \E d \in DOMAIN docs, key \in KeyInputs : Get(d, key)
    \/ \E d \in DOMAIN docs, key \in KeyInputs : Contains(d, key)
    \/ \E d \in DOMAIN docs, key \in KeyInputs, value \in SetInputs : Set(d, key, value)
    \/ \E d \in DOMAIN docs, key \in KeyInputs : SetGet(d, key)
    \/ \E d \in DOMAIN docs, key \in KeyInputs : Del(d, key)
    \/ \E l \in DOMAIN lists, index \in 0..MaxListLen, value \in ItemInputs :
          ListSetItem(l, index, value)
    \/ \E l \in DOMAIN lists, sl \in SliceInputs, value \in ListInputs :
          ListSetSlice(l, sl[1], sl[2], value)
    \/ \E l \in DOMAIN lists, value \in AppendInputs : ListAppend(l, value)
    \/ \E l \in DOMAIN lists : ListPop(l)

Spec == Init /\ [][Next]_vars

-----------------------------------------------------------------------------
(* Processor layouts: layout_config.py and esm1p6_layout_input.py.  The    *)
(* two generators are pure functions of their arguments.  A float argument *)
(* is a number of quarters, which 0.75 and 1.25 and their products with    *)
(* the core counts are exactly.                                            *)

MaxAtmNcores == 4       \* min_atm_ncores and max_atm_ncores range over 1..MaxAtmNcores
MaxNcores == 7          \* ncores_for_atm_and_ocn and maxncore range up to MaxNcores
MaxIceNcores == 1       \* ice_ncores ranges over 0..MaxIceNcores
MaxDelta == 2           \* atm_ncore_delta ranges over 0..MaxDelta
MaxDiff == 4            \* abs_maxdiff_nx_ny is -1, 0 or MaxDiff
MaxFindNcores == 30     \* maxncore of a direct call ranges over -1..MaxFindNcores

Quarter == 4
PyAbs(x) == IF x < 0 THEN -x ELSE x
PyMax(a, b) == IF a >= b THEN a ELSE b
\* int(n * f) of an integer n and a float f of q quarters: truncation towards zero
PyIntOfProduct(n, q) ==
    IF n * q >= 0 THEN (n * q) \div Quarter ELSE -((-(n * q)) \div Quarter)
\* int(math.sqrt(n))
PyIntSqrt(n) == CHOOSE r \in 0..n : r * r <= n /\ (r + 1) * (r + 1) > n
\* list(range(a, b, step)), step > 0
PyRange(a, b, step) ==
    [i \in 1..(IF b > a THEN (b - a + step - 1) \div step ELSE 0) |-> a + (i - 1) * step]
RECURSIVE PyChain(_)
\* the concatenation of a list of lists
PyChain(ss) == IF ss = <<>> THEN <<>> ELSE Head(ss) \o PyChain(Tail(ss))
PyReversed(xs) == [i \in DOMAIN xs |-> xs[Len(xs) + 1 - i]]

Returned(v) == [err |-> "none", v |-> v]
Raised(err) == [err |-> err, v |-> <<>>]
\* the result of a loop whose bodies returned rs: the first exception, or all the lists
Collected(rs) ==
    IF \E i \in DOMAIN rs : rs[i].err # "none"
    THEN rs[CHOOSE i \in DOMAIN rs :
                /\ rs[i].err # "none"
                /\ \A j \in 1..(i - 1) : rs[j].err = "none"]
    ELSE Returned(PyChain([i \in DOMAIN rs |-> rs[i].v]))

\* the body of the loop over nx: nx is appended, with ny = maxncore // nx
nx_kept_any(nx, maxncore, abs_maxdiff_nx_ny, even_nx, prefer_nx_greater_than_ny) ==
    /\ PyAbs(nx - maxncore \div nx) <= abs_maxdiff_nx_ny
    /\ ~(prefer_nx_greater_than_ny /\ nx < maxncore \div nx)

nx_kept(nx, maxncore, abs_maxdiff_nx_ny, even_nx, prefer_nx_greater_than_ny) ==
    /\ ~(even_nx /\ nx % 2 # 0)
    /\ PyAbs(nx - maxncore \div nx) <= abs_maxdiff_nx_ny
    /\ ~(prefer_nx_greater_than_ny /\ nx < maxncore \div nx)

find_layouts_with_maxncore(maxncore, abs_maxdiff_nx_ny, even_nx, prefer_nx_greater_than_ny) ==
    IF maxncore < 1 THEN Raised("ValueError")
    ELSE IF abs_maxdiff_nx_ny < 0 THEN Raised("ValueError")
    ELSE IF maxncore < 2 /\ even_nx THEN Returned(<<>>)
    ELSE LET Kept(nx) == nx_kept(nx, maxncore, abs_maxdiff_nx_ny, even_nx,
                                 prefer_nx_greater_than_ny)
             Pairs(xs) == [i \in DOMAIN xs |-> <<xs[i], maxncore \div xs[i]>>]
             From(best_ncore) ==
                 Pairs(SelectSeq(PyRange(IF prefer_nx_greater_than_ny THEN best_ncore
                                         ELSE PyMax(1, best_ncore - abs_maxdiff_nx_ny),
                                         best_ncore + abs_maxdiff_nx_ny + 1, 1), Kept))
         IN  Returned(From(PyIntSqrt(maxncore)))

layout_tuple(ncores_used, atm_nx, atm_ny, mom_nx, mom_ny, ice_ncores) ==
    [ncores_used |-> ncores_used, atm_nx |-> atm_nx, atm_ny |-> atm_ny,
     mom_nx |-> mom_nx, mom_ny |-> mom_ny, ice_ncores |-> ice_ncores]

\* list(set(layout)): the order a set is iterated in is not the order of the list
\* it was made from; the model takes the list's order or its reverse
PySetOrder(xs, reversed) == IF reversed THEN PyReversed(xs) ELSE xs

\* the body of the loop over mom_layout: the layout is appended
mom_kept_any(a, atm_ncores, atm, mom) ==
    /\ ~(\/ mom[1] * mom[2]
              < PyIntOfProduct(atm_ncores, a.mom_ncores_over_atm_ncores_range[1])
         \/ mom[1] * mom[2]
              > PyIntOfProduct(atm_ncores, a.mom_ncores_over_atm_ncores_range[2]))
    /\ ~(/\ a.prefer_atm_ncores_greater_than_mom_ncores
         /\ atm[1] * atm[2] < mom[1] * mom[2])

mom_kept(a, atm_ncores, atm, mom) ==
    /\ ~(\/ mom[1] * mom[2]
              < PyIntOfProduct(atm_ncores, a.mom_ncores_over_atm_ncores_range[1])
         \/ mom[1] * mom[2]
              > PyIntOfProduct(atm_ncores, a.mom_ncores_over_atm_ncores_range[2]))
    /\ ~(/\ a.prefer_atm_ncores_greater_than_mom_ncores
         /\ atm[1] * atm[2] < mom[1] * mom[2])
    /\ ~(mom[1] * mom[2] + atm[1] * atm[2] + a.ice_ncores < a.min_ncores_needed)

\* the body of the loop over atm_layout: what all_layouts is extended with
layouts_of_atm(a, atm_ncores, atm, reversed) ==
    LET Kept(mom) == mom_kept(a, atm_ncores, atm, mom)
        Tuples(ms) ==
            [i \in DOMAIN ms |->
                layout_tuple(ms[i][1] * ms[i][2] + atm[1] * atm[2] + a.ice_ncores,
                             atm[1], atm[2], ms[i][1], ms[i][2], a.ice_ncores)]
        Filtered(mom_layout) ==
            IF mom_layout.err # "none" THEN mom_layout
            ELSE Returned(PySetOrder(Tuples(SelectSeq(mom_layout.v, Kept)), reversed))
    IN  Filtered(find_layouts_with_maxncore(
                     a.ncores_for_atm_and_ocn - atm[1] * atm[2], a.abs_maxdiff_nx_ny,
                     FALSE, a.prefer_mom_nx_greater_than_ny))

\* the body of the loop over atm_ncores
layouts_of_atm_ncores(a, atm_ncores, reversed) ==
    LET Each(atm_layout) ==
            IF atm_layout.err # "none" THEN atm_layout
            ELSE Collected([i \in DOMAIN atm_layout.v |->
                               layouts_of_atm(a, atm_ncores, atm_layout.v[i], reversed)])
    IN  Each(find_layouts_with_maxncore(atm_ncores, a.abs_maxdiff_nx_ny, TRUE,
                                        a.prefer_atm_nx_greater_than_ny))

\* the key all_layouts is sorted by
layout_sort_key_ncores(x) == <<-x.ncores_used, 0>>

layout_sort_key(x) ==
    <<-x.ncores_used, PyAbs(x.atm_nx - x.atm_ny) + PyAbs(x.mom_nx - x.mom_ny)>>

\* tuples of two integers as Python compares them
PyTupleLess(k1, k2) == k1[1] < k2[1] \/ (k1[1] = k2[1] /\ k1[2] < k2[2])

\* sorted(xs, key=layout_sort_key): a stable sort
PySorted(xs) ==
    LET Before(j, i) ==
            \/ PyTupleLess(layout_sort_key(xs[j]), layout_sort_key(xs[i]))
            \/ layout_sort_key(xs[j]) = layout_sort_key(xs[i]) /\ j < i
        Place(i) == 1 + Cardinality({j \in DOMAIN xs : Before(j, i)})
    IN  [p \in DOMAIN xs |-> xs[CHOOSE i \in DOMAIN xs : Place(i) = p]]

min_atm_and_mom_ncores == 3

generate_esm1p6_layout_from_core_counts(a, reversed) ==
    IF a.min_atm_ncores < 2 \/ a.max_atm_ncores < 2 \/ a.min_atm_ncores > a.max_atm_ncores
    THEN Raised("ValueError")
    ELSE IF a.atm_ncore_delta <= 0 THEN Raised("ValueError")
    ELSE IF a.ncores_for_atm_and_ocn < min_atm_and_mom_ncores THEN Raised("ValueError")
    ELSE IF a.ice_ncores < 1 THEN Raised("ValueError")
    ELSE IF a.min_ncores_needed > a.ncores_for_atm_and_ocn + a.ice_ncores
    THEN Raised("ValueError")
    ELSE IF \/ a.mom_ncores_over_atm_ncores_range[1] <= 0
            \/ a.mom_ncores_over_atm_ncores_range[2] <= 0
            \/ a.mom_ncores_over_atm_ncores_range[1] > a.mom_ncores_over_atm_ncores_range[2]
    THEN Raised("ValueError")
    ELSE LET Sorted(all_layouts) ==
                 IF all_layouts.err # "none" THEN all_layouts
                 ELSE Returned(PySorted(all_layouts.v))
             Loop(counts) ==
                 Collected([i \in DOMAIN counts |->
                               layouts_of_atm_ncores(a, counts[i], reversed)])
         IN  Sorted(Loop(PyRange(a.min_atm_ncores, a.max_atm_ncores + 1,
                                 a.atm_ncore_delta)))

\* the arguments of the calls made
GenerateArgs ==
    [min_atm_ncores : 1..MaxAtmNcores,
     max_atm_ncores : 1..MaxAtmNcores,
     ncores_for_atm_and_ocn : 2..MaxNcores,
     ice_ncores : 0..MaxIceNcores,
     min_ncores_needed : {0},
     atm_ncore_delta : 0..MaxDelta,
     abs_maxdiff_nx_ny : {-1, 0, MaxDiff},
     prefer_atm_nx_greater_than_ny : BOOLEAN,
     prefer_mom_nx_greater_than_ny : BOOLEAN,
     prefer_atm_ncores_greater_than_mom_ncores : BOOLEAN,
     mom_ncores_over_atm_ncores_range : {<<3, 5>>, <<2, 8>>, <<0, 5>>, <<5, 3>>}]
FindArgs ==
    [maxncore : -1..MaxFindNcores,
     abs_maxdiff_nx_ny : -1..MaxDiff,
     even_nx : BOOLEAN,
     prefer_nx_greater_than_ny : BOOLEAN]

NotCalled == [err |-> "not called", v |-> <<>>]

LayoutInit ==
    /\ \/ \E a \in GenerateArgs, over \in 0..1 :
             layout = [fn |-> "generate",
                       args |-> [a EXCEPT !.min_ncores_needed =
                                    a.ncores_for_atm_and_ocn + a.ice_ncores + over],
                       out |-> NotCalled, prev |-> NotCalled]
       \/ \E a \in FindArgs :
             layout = [fn |-> "find", args |-> a, out |-> NotCalled, prev |-> NotCalled]
    /\ text = <<>>
    /\ caseSensitive = FALSE
    /\ nodes = <<>>
    /\ docs = EmptyDict
    /\ lists = <<>>
    /\ last = Idle
    /\ profile = NoProfile

\* _generate_esm1p6_layout_from_core_counts(**args)
Generate(reversed) ==
    /\ layout.fn = "generate"
    /\ layout.out = NotCalled
    /\ layout' = [layout EXCEPT
                    !.out = generate_esm1p6_layout_from_core_counts(layout.args, reversed)]
    /\ UNCHANGED <<text, caseSensitive, nodes, docs, lists, last, profile>>

\* the same call again with min_ncores_needed one lower, all else equal
GenerateLower(reversed) ==
    /\ layout.fn = "generate"
    /\ layout.out # NotCalled
    /\ \/ layout.out.err = "none"
       \/ layout.args.min_ncores_needed
             > layout.args.ncores_for_atm_and_ocn + layout.args.ice_ncores
    /\ layout.args.min_ncores_needed > 0
    /\ LET Lowered(a) ==
               [layout EXCEPT
                  !.args = a, !.prev = layout.out,
                  !.out = generate_esm1p6_layout_from_core_counts(a, reversed)]
       IN  layout' = Lowered([layout.args EXCEPT
                                !.min_ncores_needed = layout.args.min_ncores_needed - 1])
    /\ UNCHANGED <<text, caseSensitive, nodes, docs, lists, last, profile>>

\* find_layouts_with_maxncore(maxncore, **args)
FindLayouts ==
    /\ layout.fn = "find"
    /\ layout.out = NotCalled
    /\ layout' = [layout EXCEPT
                    !.out = find_layouts_with_maxncore(
                                layout.args.maxncore, layout.args.abs_maxdiff_nx_ny,
                                layout.args.even_nx,
                                layout.args.prefer_nx_greater_than_ny)]
    /\ UNCHANGED <<text, caseSensitive, nodes, docs, lists, last, profile>>

LayoutNext ==
    \/ \E reversed \in BOOLEAN : Generate(reversed)
    \/ \E reversed \in BOOLEAN : GenerateLower(reversed)
    \/ FindLayouts

LayoutSpec == LayoutInit /\ [][LayoutNext]_vars

-----------------------------------------------------------------------------
(* UM profiling logs: parsers/um_profiling.py.  A stream is a sequence of  *)
(* lines, each of the kind one of the regular expressions of the parser    *)
(* tells apart; a header line group carries its column names.              *)

MaxStreamLen == 4       \* a stream has up to MaxStreamLen lines

raw_headers_7 ==
    <<"ROUTINE", "MEAN", "MEDIAN", "SD", "% of mean", "MAX", "(PE)", "MIN", "(PE)">>
raw_headers_13 == <<"N">> \o raw_headers_7
raw_headers_dict == (<<"7">> :> raw_headers_7) @@ (<<"1", "3">> :> raw_headers_13)
\* the keys of raw_headers_dict in the order they were inserted
raw_headers_keys == <<<<"7">>, <<"1", "3">>>>

\* "Based upon UM release vn<version>", "UM Version No <version>", the header of
\* the wallclock section, a line of it, its footer, any other line
ReleaseLine(version) == [kind |-> "release", version |-> version]
VersionNoLine(version) == [kind |-> "version_no", version |-> version]
HeaderLines(columns) == [kind |-> "header", columns |-> columns]
RegionLine(region) == [kind |-> "region", region |-> region]
FooterLine == [kind |-> "footer"]
OtherLine == [kind |-> "other"]

\* the index of the first line of the stream among those a pattern matches
\* (hits), 0 if it matches none
PySearch(hits) == IF hits = {} THEN 0 ELSE CHOOSE i \in hits : \A j \in hits : i <= j
\* the indices of the lines of a kind
LinesOfKind(stream, kind) == {i \in DOMAIN stream : stream[i].kind = kind}

\* ver.split(".")[0]
PySplitHead(ver) ==
    IF \E i \in DOMAIN ver : ver[i] = "."
    THEN SubSeq(ver, 1, (CHOOSE i \in DOMAIN ver :
                            ver[i] = "." /\ \A j \in 1..(i - 1) : ver[j] # ".") - 1)
    ELSE ver

get_um_version(stream) ==
    LET Standard(ver) ==
            IF Len(ver) = 3 THEN <<ver[1], ".">> \o SubSeq(ver, 3, Len(ver)) ELSE ver
    IN  IF PySearch(LinesOfKind(stream, "release")) # 0
        THEN PyStr(stream[PySearch(LinesOfKind(stream, "release"))].version)
        ELSE IF PySearch(LinesOfKind(stream, "version_no")) # 0
        THEN PyStr(Standard(stream[PySearch(LinesOfKind(stream, "version_no"))].version))
        ELSE PyNone

\* the index of the match of the header made of raw_headers, 0 for no match
match_um_header(stream, raw_headers) ==
    PySearch({i \in LinesOfKind(stream, "header") : stream[i].columns = raw_headers})

\* the version read() goes on with: the one of the stream or, without one, the
\* first key of raw_headers_dict whose header matches
detected_um_version(stream) ==
    IF get_um_version(stream).t # "NoneType" THEN get_um_version(stream)
    ELSE IF \E k \in DOMAIN raw_headers_keys :
                match_um_header(stream, raw_headers_dict[raw_headers_keys[k]]) # 0
    THEN PyStr(raw_headers_keys[
             CHOOSE k \in DOMAIN raw_headers_keys :
                /\ match_um_header(stream, raw_headers_dict[raw_headers_keys[k]]) # 0
                /\ \A j \in 1..(k - 1) :
                      match_um_header(stream, raw_headers_dict[raw_headers_keys[j]]) = 0])
    ELSE PyNone

\* the lines between the header at h and the last footer: the regions when
\* every line is one, AssertionError otherwise
read_section(stream, h) ==
    LET IsRegion(line) == line.kind = "region"
        Stats(section) ==
            IF Len(SelectSeq(section, IsRegion))
                 # (IF section = <<>> THEN 1 ELSE Len(section))
            THEN Raised("AssertionError")
            ELSE Returned([i \in DOMAIN section |-> section[i].region])
        Between(f) == Stats(SubSeq(stream, h + 1, f - 1))
    IN  IF \E f \in (h + 1)..Len(stream) : stream[f].kind = "footer"
        THEN Between(CHOOSE f \in (h + 1)..Len(stream) :
                        /\ stream[f].kind = "footer"
                        /\ \A g \in (f + 1)..Len(stream) : stream[g].kind # "footer")
        ELSE Raised("AttributeError")

UMProfilingParser_read(stream) ==
    LET WithMajor(um_version_major) ==
            IF um_version_major \notin DOMAIN raw_headers_dict THEN Raised("ValueError")
            ELSE IF match_um_header(stream, raw_headers_dict[um_version_major]) = 0
            THEN Raised("ValueError")
            ELSE IF PySearch(LinesOfKind(stream, "footer")) = 0 THEN Raised("ValueError")
            ELSE read_section(stream,
                              match_um_header(stream, raw_headers_dict[um_version_major]))
        WithVersion(um_version) ==
            IF um_version.t = "NoneType" THEN Raised("AttributeError")
            ELSE WithMajor(PySplitHead(um_version.v))
    IN  WithVersion(detected_um_version(stream))

\* the lines a stream is made of
Lines ==
    {ReleaseLine(<<"1", "3", ".", "1">>), ReleaseLine(<<"1", "0", ".", "2">>),
     VersionNoLine(<<"7", "0", "3">>),
     HeaderLines(raw_headers_7), HeaderLines(raw_headers_13),
     RegionLine("AS3 Atmos_Phys2"), FooterLine, OtherLine}
Streams == UNION {[1..n -> Lines] : n \in 0..MaxStreamLen}

ProfileInit ==
    /\ profile \in [fn : {"read"}, stream : Streams, out : {NotCalled}]
    /\ text = <<>>
    /\ caseSensitive = FALSE
    /\ nodes = <<>>
    /\ docs = EmptyDict
    /\ lists = <<>>
    /\ last = Idle
    /\ layout = NoLayout

\* UMProfilingParser().read(stream)
Read ==
    /\ profile.fn = "read"
    /\ profile.out = NotCalled
    /\ profile' = [profile EXCEPT !.out = UMProfilingParser_read(profile.stream)]
    /\ UNCHANGED <<text, caseSensitive, nodes, docs, lists, last, layout>>

ProfileNext == Read

ProfileSpec == ProfileInit /\ [][ProfileNext]_vars

-----------------------------------------------------------------------------
(* ACCESS-OM3 layouts: accessom3_layout_input.py.  A dict is a function;   *)
(* pool_map is given by its values, the pools of the submodels in order.   *)
(* Ratios are whole numbers, for which the tolerance eps makes no          *)
(* difference: a / base > r + eps exactly when a > r * base.               *)

MaxNodes == 2           \* a node count ranges over 0..MaxNodes, a nodes list has 1 or 2

Absent == [some |-> FALSE, v |-> <<>>]
Given(v) == [some |-> TRUE, v |-> v]
RECURSIVE PySum(_)
PySum(xs) == IF xs = <<>> THEN 0 ELSE Head(xs) + PySum(Tail(xs))
PyIn(x, xs) == \E i \in DOMAIN xs : xs[i] = x

preferred_order == <<"shared", "ocn", "wav", "ice", "atm", "rof", "cpl">>

\* ACCESSOM3LayoutGenerator._check_pools(pool_map, pool_order)
check_pools(pool_map, pool_order) ==
    LET Used(pool) == PyIn(pool, pool_map)
    IN  IF pool_order.some
        THEN IF \E i \in DOMAIN pool_map : ~PyIn(pool_map[i], pool_order.v)
             THEN Raised("ValueError")
             ELSE Returned(SelectSeq(pool_order.v, Used))
        ELSE Returned(SelectSeq(preferred_order, Used))

\* ACCESSOM3LayoutGenerator._normalise_blocks_per_node(num_nodes, blocks_per_node, default)
normalise_blocks_per_node(num_nodes, blocks_per_node, default) ==
    IF blocks_per_node.t = "NoneType" THEN Returned([i \in 1..num_nodes |-> default])
    ELSE IF blocks_per_node.t = "int"
    THEN Returned([i \in 1..num_nodes |-> blocks_per_node.n])
    ELSE IF Len(blocks_per_node.l) # num_nodes THEN Raised("ValueError")
    ELSE Returned(blocks_per_node.l)

\* ACCESSOM3LayoutGenerator._pass_ratio_constraints(alloc, max_ratio, min_ratio):
\* [err, v] with v the bool returned
pass_ratio_constraints(alloc, max_ratio_to_baseline, min_ratio_to_baseline, baseline_pool) ==
    LET Compared(ratios) == {pool \in DOMAIN ratios : pool # baseline_pool /\ pool \in DOMAIN alloc}
    IN  IF alloc[baseline_pool] = 0
        THEN IF Compared(max_ratio_to_baseline) \cup Compared(min_ratio_to_baseline) # {}
             THEN Raised("ZeroDivisionError") ELSE Returned(TRUE)
        ELSE Returned(
                 /\ \A pool \in Compared(max_ratio_to_baseline) :
                       ~(alloc[pool] > max_ratio_to_baseline[pool] * alloc[baseline_pool])
                 /\ \A pool \in Compared(min_ratio_to_baseline) :
                       ~(alloc[pool] < min_ratio_to_baseline[pool] * alloc[baseline_pool]))

RECURSIVE allocate_blocks(_, _, _, _, _)
\* allocate_blocks(i, remaining, current_alloc) of _enumerate_block_allocations,
\* i counted from 1: the allocations it yields, in order
allocate_blocks(pools, mins, i, remaining, current_alloc) ==
    IF i = Len(pools)
    THEN IF remaining >= mins[pools[i]]
         THEN <<DictPut(current_alloc, pools[i], remaining)>> ELSE <<>>
    ELSE LET Each(blocks) ==
                 [b \in DOMAIN blocks |->
                     allocate_blocks(pools, mins, i + 1, remaining - blocks[b],
                                     DictPut(current_alloc, pools[i], blocks[b]))]
         IN  PyChain(Each(PyRange(mins[pools[i]],
                                  remaining
                                    - PySum([p \in 1..(Len(pools) - i) |-> mins[pools[i + p]]])
                                    + 1, 1)))

\* ACCESSOM3LayoutGenerator._enumerate_block_allocations(total_blocks, pools, min_blocks)
enumerate_block_allocations(total_blocks, pools, min_blocks) ==
    allocate_blocks(pools,
                    [pool \in {pools[i] : i \in DOMAIN pools} |->
                        IF pool \in DOMAIN min_blocks THEN min_blocks[pool] ELSE 1],
                    1, total_blocks, EmptyDict)

RECURSIVE assign_rootpes_from(_, _, _, _, _)
assign_rootpes_from(pools, pool_ntasks, i, current_pe, rootpe) ==
    IF i > Len(pools) THEN rootpe
    ELSE assign_rootpes_from(pools, pool_ntasks, i + 1, current_pe + pool_ntasks[pools[i]],
                             DictPut(rootpe, pools[i], current_pe))

\* ACCESSOM3LayoutGenerator._assign_rootpes(pools, pool_ntasks)
assign_rootpes(pools, pool_ntasks) ==
    assign_rootpes_from(pools, pool_ntasks, 1, 0, EmptyDict)

\* the ConfigLayout made of an allocation of blocks
ConfigLayout(pools, alloc_blocks, block_size) ==
    LET Laid(pool_ntasks) ==
            [ncpus |-> PySum([i \in DOMAIN pools |->
                                 IF \E j \in 1..(i - 1) : pools[j] = pools[i] THEN 0
                                 ELSE pool_ntasks[pools[i]]]),
             pool_ntasks |-> pool_ntasks,
             pool_rootpe |-> assign_rootpes(pools, pool_ntasks)]
    IN  Laid([pool \in {pools[i] : i \in DOMAIN pools} |-> alloc_blocks[pool] * block_size])

\* the body of the loop over nodes: the layouts of one node count
layouts_of_node(a, pools, node, blocks_per_node) ==
    LET Passes(alloc) ==
            pass_ratio_constraints(alloc, a.max_ratio_to_baseline, a.min_ratio_to_baseline,
                                   a.baseline_pool)
        Pass(alloc) == Passes(alloc).v
        Layouts(allocs) ==
            IF \E i \in DOMAIN allocs : Passes(allocs[i]).err # "none"
            THEN Raised("ZeroDivisionError")
            ELSE Returned([i \in DOMAIN SelectSeq(allocs, Pass) |->
                              ConfigLayout(pools, SelectSeq(allocs, Pass)[i],
                                           a.nodesize \div blocks_per_node)])
    IN  IF a.nodesize % blocks_per_node # 0 THEN Raised("ValueError")
        ELSE Layouts(enumerate_block_allocations(node * blocks_per_node, pools, a.min_blocks))

RECURSIVE layout_by_node(_, _, _, _, _)
\* the loop over nodes from the i-th on: the dict filled, or the exception
layout_by_node(a, pools, blocks_per_node_list, i, acc) ==
    LET Stored(layouts) ==
            IF layouts.err # "none" THEN layouts
            ELSE layout_by_node(a, pools, blocks_per_node_list, i + 1,
                                DictPut(acc, a.nodes[i], layouts.v))
    IN  IF i > Len(a.nodes) THEN Returned(acc)
        ELSE Stored(layouts_of_node(a, pools, a.nodes[i], blocks_per_node_list[i]))

\* ACCESSOM3LayoutGenerator(QueueConfig(nodesize), blocks_per_node, baseline_pool)
\*     .generator(nodes, pool_map, ...)
ACCESSOM3LayoutGenerator_generator(a) ==
    LET WithBlocks(pools, blocks_per_node_list) ==
            IF blocks_per_node_list.err # "none" THEN blocks_per_node_list
            ELSE layout_by_node(a, pools, blocks_per_node_list.v, 1, EmptyDict)
        WithPools(pools) ==
            IF pools.err # "none" THEN pools
            ELSE IF ~PyIn(a.baseline_pool, pools.v) THEN Raised("ValueError")
            ELSE WithBlocks(pools.v,
                            normalise_blocks_per_node(Len(a.nodes), a.blocks_per_node,
                                                      a.default_blocks_per_node))
    IN  IF a.nodesize % a.default_blocks_per_node # 0 THEN Raised("ValueError")
        ELSE WithPools(check_pools(a.pool_map, a.pool_order))

GeneratorArgs ==
    [nodesize : {48, 28},
     default_blocks_per_node : {2, 4, 8},
     baseline_pool : {"shared"},
     nodes : UNION {[1..n -> 0..MaxNodes] : n \in 1..2},
     pool_map : {<<"shared">>, <<"ocn", "shared">>, <<"ocn", "shared", "shared", "ice">>,
                 <<"ocn", "shared", "glc">>, <<"ocn", "ice">>},
     pool_order : {Absent, Given(<<"ocn", "shared">>),
                   Given(<<"shared", "ocn", "ice", "glc">>),
                   Given(<<"shared", "ocn", "shared">>)},
     min_blocks : {EmptyDict, [pool \in {"ocn"} |-> 2], [pool \in {"shared"} |-> 0]},
     max_ratio_to_baseline : {EmptyDict, [pool \in {"ocn"} |-> 2]},
     min_ratio_to_baseline : {EmptyDict, [pool \in {"ocn"} |-> 1]},
     blocks_per_node : {[t |-> "NoneType", n |-> 0, l |-> <<>>], [t |-> "int", n |-> 3, l |-> <<>>],
                        [t |-> "list", n |-> 0, l |-> <<2, 4>>]}]

OM3Init ==
    /\ layout \in [fn : {"om3"}, args : GeneratorArgs, out : {NotCalled}]
    /\ text = <<>>
    /\ caseSensitive = FALSE
    /\ nodes = <<>>
    /\ docs = EmptyDict
    /\ lists = <<>>
    /\ last = Idle
    /\ profile = NoProfile

\* ACCESSOM3LayoutGenerator(...).generator(**args)
OM3Generate ==
    /\ layout.fn = "om3"
    /\ layout.out = NotCalled
    /\ layout' = [layout EXCEPT !.out = ACCESSOM3LayoutGenerator_generator(layout.args)]
    /\ UNCHANGED <<text, caseSensitive, nodes, docs, lists, last, profile>>

OM3Next == OM3Generate

OM3Spec == OM3Init /\ [][OM3Next]_vars

-----------------------------------------------------------------------------
(* ConfigToDict over Lark trees given directly.  A statement is a rule     *)
(* with a key and n value children; statement j of the root carries the    *)
(* integers 10 j + 1 .. 10 j + n, and a key_block carries the block        *)
(*     D = 10 j                                                            *)
(*     d =                                                                 *)

MaxStatements == 3      \* statements of the root

Statements ==
    [rule : {"key_value"}, key : {<<"K">>}, n : {0, 1, 2}]
        \cup [rule : {"key_list"}, key : {<<"K">>, <<"k">>}, n : {2}]
        \cup [rule : {"key_null"}, key : {<<"K">>, <<"k">>}, n : {0}]
        \cup [rule : {"key_block"}, key : {<<"K">>}, n : {0}]
        \cup [rule : {"key_value"}, key : {<<"k">>, <<"Z">>}, n : {1}]

\* the Tree of an integer value
IntegerTree(n) == MkTree("integer", <<TokItem(Tok("INTEGER", NatToDigits(n)))>>)

\* the Trees of statement j, the rule node last
StatementTrees(n, j, st) ==
    IF st.rule = "key_block"
    THEN <<MkTree("key", <<TokItem(KEY(st.key))>>),
           MkTree("key", <<TokItem(KEY(<<"D">>))>>),
           IntegerTree(10 * j),
           MkTree("key_value", <<TreeItem(n + 2), TreeItem(n + 3)>>),
           MkTree("key", <<TokItem(KEY(<<"d">>))>>),
           MkTree("key_null", <<TreeItem(n + 5)>>),
           MkTree("block", <<TokItem(NEWLINE), TreeItem(n + 4), TokItem(NEWLINE),
                             TreeItem(n + 6), TokItem(NEWLINE)>>),
           MkTree("key_block", <<TreeItem(n + 1), TreeItem(n + 7)>>)>>
    ELSE <<MkTree("key", <<TokItem(KEY(st.key))>>)>>
         \o [i \in 1..st.n |-> IntegerTree(10 * j + i)]
         \o <<MkTree(st.rule, [i \in 1..(st.n + 1) |-> TreeItem(n + i)])>>

RECURSIVE TreeOf(_, _, _)
\* the tree of the statements from the j-th on, added to the arena ns
TreeOf(ns, sts, j) ==
    IF j > Len(sts) THEN ns
    ELSE LET Grown(trees) ==
                 AddChildren(ns \o trees, RootId,
                             <<TreeItem(Len(ns) + Len(trees)), TokItem(NEWLINE)>>)
         IN  TreeOf(Grown(StatementTrees(Len(ns), j, sts[j])), sts, j + 1)

TreeInit ==
    /\ nodes \in {TreeOf(<<MkTree("start", <<>>)>>, sts, 1) :
                     sts \in UNION {[1..n -> Statements] : n \in 1..MaxStatements}}
    /\ caseSensitive \in BOOLEAN
    /\ text = <<>>
    /\ docs = EmptyDict
    /\ lists = <<>>
    /\ last = Idle
    /\ layout = NoLayout
    /\ profile = NoProfile

\* AddParent().visit(tree); Config(tree, reconstructor, case_sensitive_keys):
\* the call records the maps of the root's ConfigToDict as they are when
\* visit() returns or raises
Interpret ==
    LET Maps(v) == [t |-> "ConfigToDict",
                    v |-> [data |-> v.data, refs |-> v.refs, order |-> v.order]]
        Made(ns, cfg, v) ==
            /\ nodes' = ns
            /\ docs' = IF cfg.err = "none" THEN cfg.docs ELSE EmptyDict
            /\ lists' = IF cfg.err = "none" THEN cfg.lists ELSE <<>>
            /\ last' = Call("visit", RootId, 0, <<>>, PyNone, NoIndex, cfg.err, Maps(v),
                            NoSnapshot)
        Visited(ns) == Made(ns, Config_init(ns, caseSensitive),
                            ConfigToDict_visit(ns, RootId, caseSensitive))
    IN  /\ last = Idle
        /\ Visited(AddParent(nodes, RootId))
        /\ UNCHANGED <<text, caseSensitive, layout, profile>>

TreeNext == Interpret

TreeSpec == TreeInit /\ [][TreeNext]_vars

-----------------------------------------------------------------------------
(* The handlers of the registry on their own: one value node of a rule     *)
(* with an original lexeme, rewritten by _update_node_value and read back  *)
(* with the from_token of its rule.                                        *)

\* the rules looked at, each with original lexemes of the rule
HandlerLexemes ==
    [logical    |-> {<<".", "t", "r", "u", "e", ".">>, <<".", "F", "A", "L", "S", "E", ".">>},
     bool       |-> {<<"T", "r", "u", "e">>, <<"F", "a", "l", "s", "e">>},
     integer    |-> {<<"1">>, <<"-", "5">>, <<"+", "3">>},
     identifier |-> {<<"a", "b">>, <<"_", "x", "1">>},
     string     |-> {<<"'", "a", "'">>, <<"\"", "b", "b", "\"">>, <<"'", "'">>},
     path       |-> {<<"a", "/", "b">>, <<".", "/", "x", "/", "/", "y", "/">>, <<"/">>}]

\* the strings a caller makes paths of
PathInputs ==
    {<<>>, <<".">>, <<"a">>, <<"a", "/">>, <<"a", "/", "/", "b">>, <<".", "/", "a">>,
     <<"/">>, <<"/", "/">>, <<"/", "/", "/", "a">>, <<"/", "/", "a">>, <<"a", "/", ".", "/", "b">>,
     <<".", ".">>, <<"a", "/", ".", ".">>, <<"/", "a", "/">>}
\* the values a caller passes to a handler
HandlerInputs ==
    {PyBool(TRUE), PyBool(FALSE), PyNone}
        \cup {PyIntV(n) : n \in {0, 7, 30, 100, -8, -120}}
        \cup {PyStr(str) : str \in {<<>>, <<"x">>, <<"a", "1">>, <<"1", "a">>, <<"_">>,
                                    <<"'">>, <<"a", "'", "b">>, <<"\"", "x", "\"">>,
                                    <<"a", " ", "b">>}}
        \cup {PyPath(str) : str \in PathInputs}

HandlerInit ==
    /\ \E rule \in DOMAIN HandlerLexemes : \E t \in HandlerLexemes[rule] :
          nodes = <<MkTree(rule, <<TokItem(Tok(PyUpper(<<rule>>)[1], t))>>)>>
    /\ caseSensitive = FALSE
    /\ text = <<>>
    /\ docs = EmptyDict
    /\ lists = <<>>
    /\ last = Idle
    /\ layout = NoLayout
    /\ profile = NoProfile

\* _update_node_value(branch, value), then from_token of the rewritten token
UpdateNode(value) ==
    LET ReadBack(r) ==
            IF r.err # "none" THEN Outcome(r.err, PyNone, r.ns, docs, lists)
            ELSE Outcome("none",
                         from_token(r.ns[RootId].data, r.ns[RootId].children[1].tok.value),
                         r.ns, docs, lists)
    IN  Done("update", 0, 0, <<>>, value, NoIndex,
             ReadBack(update_node_value(nodes, NodeRef(RootId), value)))

HandlerNext == \E value \in HandlerInputs : UpdateNode(value)

HandlerSpec == HandlerInit /\ [][HandlerNext]_vars

-----------------------------------------------------------------------------
(* What the claims speak of *)

\* config.to_text() now, and before the last call
ToText(d) == Config_str(nodes, docs[d])
PreText(d) == Config_str(last.pre.nodes, last.pre.docs[d])

\* the Document, the lists and the tree as parse returned them
Parsed == ConfigParser_parse(text, caseSensitive)
Unmutated == nodes = Parsed.ns /\ docs = Parsed.docs /\ lists = Parsed.lists

\* the last call left the value maps, the references, the lists and the tree alone
StateUnchanged ==
    nodes = last.pre.nodes /\ docs = last.pre.docs /\ lists = last.pre.lists

\* the key of the last call as the Document looks it up
LastKey == normalize_key(caseSensitive, last.key)

\* the keys written in a token sequence
KeysIn(toks) == {toks[i].value : i \in {j \in DOMAIN toks : toks[j].type = "KEY"}}

-----------------------------------------------------------------------------
(* C1 *)

\* C1 as stated: for every accepted text, with or without keys,
\* str(ConfigParser.parse(text)) == text when nothing was mutated.
C1_RoundTripEveryText ==
    (last.op = "str" /\ last.doc = RootId /\ Unmutated) => last.result.v = text

\* C1 amended: str(ConfigParser.parse(text)) == text for every accepted text
\* that defines at least one key (and for the empty text): parse appends one
\* NEWLINE, so the tree reconstructs to text + NEWLINE, and to_text strips
\* exactly that one.  For a text that defines no key, str() is the empty string.
C1_RoundTrip ==
    (last.op = "str" /\ last.doc = RootId /\ Unmutated) =>
        /\ Reconstruct(nodes, RootId) = text \o <<NEWLINE>>
        /\ IF DOMAIN docs[RootId].data # {} THEN last.result.v = text
           ELSE last.result.v = <<>>

\* a text with a key that itself ends in a NEWLINE has been parsed and written back
C1_Witness ==
    /\ last.op = "str" /\ last.doc = RootId /\ Unmutated
    /\ DOMAIN docs[RootId].data # {}
    /\ text # <<>> /\ text[Len(text)] = NEWLINE
    /\ last.result.v = text

-----------------------------------------------------------------------------
(* C2 *)

\* C2: a set, delete, ConfigList index assignment or slice assignment that
\* raises leaves the value maps, the references and the tree as they were.
C2_NoPartialMutation ==
    (last.op \in {"set", "setget", "del", "list_setitem", "list_setslice"}
        /\ last.err # "none")
    => StateUnchanged

-----------------------------------------------------------------------------
(* C3 *)

\* C3: set(k, get(k)) leaves to_text() identical, whatever the spelling of
\* the original lexeme.
C3_NoopSet ==
    last.op = "setget" => ToText(RootId) = PreText(RootId)

-----------------------------------------------------------------------------
(* C4 *)

\* C4: in every reachable state the keys of the value map are the keys of
\* the reference map, for the root Document and every nested one.
C4_KeySetsEqual ==
    \A d \in DOMAIN docs : DOMAIN docs[d].data = DOMAIN docs[d].refs

\* a delete has removed a key from both maps
C4_Witness ==
    /\ last.op = "del" /\ last.err = "none"
    /\ LastKey \in DOMAIN last.pre.docs[last.doc].data
    /\ LastKey \notin DOMAIN docs[last.doc].data
    /\ DOMAIN docs[last.doc].data # {}

-----------------------------------------------------------------------------
(* C5 *)

\* C5: set on a key that is not present raises KeyError and inserts nothing;
\* no call adds a key, so the keys of a Document are always among the keys of
\* the text it was constructed from and a deleted key stays deleted.
C5_KeysOnlyShrink ==
    /\ \A d \in DOMAIN docs :
          DOMAIN docs[d].data \subseteq {normalize_key(caseSensitive, k) : k \in KeysIn(text)}
    /\ last.op \notin {"idle", "parse"} =>
          \A d \in DOMAIN docs :
             DOMAIN docs[d].data \subseteq DOMAIN last.pre.docs[d].data
    /\ (last.op = "set" /\ LastKey \notin DOMAIN last.pre.docs[last.doc].data) =>
          (last.err = "KeyError" /\ StateUnchanged)

\* a key the Document was constructed with and that was deleted since is set
C5_Witness ==
    /\ last.op = "set"
    /\ last.value = PyIntV(1)
    /\ LastKey \in DOMAIN Parsed.docs[last.doc].data
    /\ LastKey \notin DOMAIN last.pre.docs[last.doc].data
    /\ last.err = "KeyError"

-----------------------------------------------------------------------------
(* C6 *)

\* C6: after a successful delete(X), contains(X) is false, get(X) raises
\* KeyError and to_text() holds no statement for key X, also when X occurs
\* more than once in the block.
C6_DeleteThenAccess ==
    (last.op = "del" /\ last.err = "none") =>
        /\ last.key \notin DOMAIN docs[last.doc].data
        /\ Config_getitem(nodes, docs, lists, last.doc, last.key).err = "KeyError"
        /\ \A k \in KeysIn(ToText(last.doc)) : normalize_key(caseSensitive, k) # LastKey

-----------------------------------------------------------------------------
(* C7 *)

\* the Python type each scalar rule is registered for
RegisteredType ==
    [logical |-> "bool", bool |-> "bool", integer |-> "int",
     float |-> "float", double |-> "float", string |-> "str"]

\* the rule of the value node key k of Document d referred to before the last
\* call ("" when k was no scalar key)
PreScalarRule(d, k) ==
    IF k \in DOMAIN last.pre.docs[d].refs
       /\ ~last.pre.docs[d].refs[k].list
       /\ last.pre.nodes[last.pre.docs[d].refs[k].ids[1]].data \in DOMAIN RegisteredType
    THEN last.pre.nodes[last.pre.docs[d].refs[k].ids[1]].data
    ELSE ""

\* C7: set(k, v) on a scalar key succeeds exactly when the type of v is the
\* type registered for the rule of the slot, without coercion (an int for a
\* boolean slot, a bool for an integer slot, an int for a float slot raise
\* TypeError); a rejected call leaves the maps, the tree and to_text() alone.
C7_TypeGuard ==
    (last.op = "set" /\ PreScalarRule(last.doc, LastKey) # "") =>
        LET rule == PreScalarRule(last.doc, LastKey)
        IN  /\ (last.err = "none") <=> (last.value.t = RegisteredType[rule])
            /\ last.err = "none" => docs[last.doc].data[LastKey] = last.value
            /\ last.err # "none" =>
                  /\ last.err = IF IsInstanceDict(last.value) THEN "SyntaxError"
                                ELSE "TypeError"
                  /\ StateUnchanged
                  /\ ToText(RootId) = PreText(RootId)

\* set(k, 1) on a boolean-valued key was rejected
C7_Witness ==
    /\ last.op = "set"
    /\ PreScalarRule(last.doc, LastKey) \in {"logical", "bool"}
    /\ last.value = PyIntV(1)
    /\ last.err = "TypeError"
    /\ ToText(RootId) = PreText(RootId)

-----------------------------------------------------------------------------
(* C8 *)

\* C8: a whole-list replacement whose length differs from the number of value
\* nodes of the key, and a slice assignment whose length differs from the
\* number of addressed references, raise ValueError and leave the list, the
\* references and the tree untouched.
C8_LengthGuard ==
    /\ (/\ last.op \in {"set", "setget"}
        /\ LastKey \in DOMAIN last.pre.docs[last.doc].refs
        /\ last.pre.docs[last.doc].refs[LastKey].list
        /\ IsInstanceList(last.value)
        /\ Len(Elements(last.pre.lists, last.value))
              # Len(last.pre.docs[last.doc].refs[LastKey].ids))
       => (last.err = "ValueError" /\ StateUnchanged)
    /\ (/\ last.op = "list_setslice"
        /\ Len(Elements(last.pre.lists, last.value))
              # Len(PySlice(last.pre.lists[last.lst].refs, last.index.a, last.index.b)))
       => (last.err = "ValueError" /\ StateUnchanged)

\* a list of three value nodes was given a list of two
C8_Witness ==
    /\ last.op = "set"
    /\ LastKey \in DOMAIN last.pre.docs[last.doc].refs
    /\ last.pre.docs[last.doc].refs[LastKey].list
    /\ Len(last.pre.docs[last.doc].refs[LastKey].ids) = 3
    /\ last.value.t = "list" /\ Len(last.value.v) = 2
    /\ last.err = "ValueError"
    /\ ToText(RootId) = text

-----------------------------------------------------------------------------
(* C9 *)

\* C9: every ConfigList has as many elements as value-node references, in
\* every reachable state, whatever list operation was applied to it.
C9_ListLength ==
    \A l \in DOMAIN lists : Len(lists[l].data) = Len(lists[l].refs)

-----------------------------------------------------------------------------
(* C10 *)

\* the last call made again, from the state it started in, under another
\* spelling of its key
Replay(key) ==
    CASE last.op = "get" ->
            Config_getitem(last.pre.nodes, last.pre.docs, last.pre.lists, last.doc, key)
      [] last.op = "set" ->
            Config_setitem(last.pre.nodes, last.pre.docs, last.pre.lists, last.doc, key,
                           last.value)
      [] last.op = "del" ->
            Config_delitem(last.pre.nodes, last.pre.docs, last.pre.lists, last.doc, key)

\* C10: without case-sensitive keys, get, set and delete do the same under
\* every case variant of the key; with case-sensitive keys each spelling in
\* the text is an entry of its own and only the exact spelling finds it.
C10_CaseFolding ==
    /\ (last.op \in {"get", "set", "del"} /\ ~caseSensitive) =>
          \A variant \in {PyUpper(last.key), PyLower(last.key)} :
             Replay(variant) = Outcome(last.err, last.result, nodes, docs, lists)
    /\ (last.op \in {"get", "set", "del"} /\ caseSensitive) =>
          /\ (last.err = "KeyError") <=> (last.key \notin DOMAIN last.pre.docs[last.doc].data)
          /\ last.key \notin KeysIn(text) => last.err = "KeyError"
          /\ (last.op = "get" /\ last.err = "none") =>
                last.result = last.pre.docs[last.doc].data[last.key]
    /\ (last.op = "parse" /\ caseSensitive) =>
          \A k \in KeysIn(text) : \E d \in DOMAIN docs : k \in DOMAIN docs[d].data

\* the key written Foo was set under the spelling foo
C10_Witness ==
    /\ ~caseSensitive
    /\ Foo \in KeysIn(text)
    /\ last.op = "set" /\ last.key = PyLower(Foo) /\ last.err = "none"
    /\ docs[RootId].data[PyUpper(Foo)] = last.value
    /\ last.value # last.pre.docs[RootId].data[PyUpper(Foo)]

-----------------------------------------------------------------------------
(* C11 *)

\* C11: contains(k) is true exactly when get(k) succeeds, for every key string
\* and, without case-sensitive keys, for every case variant of it; the call
\* changes nothing.
C11_ContainsIsNormalized ==
    last.op = "contains" =>
        /\ last.result.v =
              (Config_getitem(nodes, docs, lists, last.doc, last.key).err = "none")
        /\ StateUnchanged

-----------------------------------------------------------------------------
(* C12 *)

\* the key of the last call held a nested Config before the call
PreBlock ==
    /\ LastKey \in DOMAIN last.pre.docs[last.doc].data
    /\ last.pre.docs[last.doc].data[LastKey].t = "Config"

\* C12 as stated: set(k, v) on a key whose value is a nested Document raises
\* SyntaxError for every value v and changes nothing.
C12_BlockSetIsSyntaxError ==
    (last.op \in {"set", "setget"} /\ PreBlock) =>
        (last.err = "SyntaxError" /\ StateUnchanged)

\* C12 amended: set(k, v) on a key whose value is a nested Document is always
\* rejected, with SyntaxError when v is a mapping and with TypeError for every
\* other v; the nested Document, the reference and the tree are unchanged.
C12_BlockSetRejected ==
    (last.op \in {"set", "setget"} /\ PreBlock) =>
        /\ last.err = IF IsInstanceDict(last.value) THEN "SyntaxError" ELSE "TypeError"
        /\ StateUnchanged
        /\ ToText(RootId) = PreText(RootId)

\* a dict was assigned to a block key
C12_Witness ==
    /\ last.op = "set" /\ PreBlock
    /\ last.value = PyDict
    /\ last.err = "SyntaxError"
    /\ docs[last.doc].data[LastKey].t = "Config"

-----------------------------------------------------------------------------
(* C13 *)

\* the key of the last call held None before the call
PreNull ==
    /\ LastKey \in DOMAIN last.pre.docs[last.doc].data
    /\ last.pre.docs[last.doc].data[LastKey] = PyNone

\* C13: set(k, v) on a key whose value is null succeeds only for v = None, as
\* a no-op; every other v (scalar, list or mapping) raises TypeError; either
\* way the value, the reference and the tree are unchanged.
C13_NullSlot ==
    (last.op \in {"set", "setget"} /\ PreNull) =>
        /\ last.err = IF last.value = PyNone THEN "none" ELSE "TypeError"
        /\ StateUnchanged
        /\ ToText(RootId) = PreText(RootId)

\* None was assigned to a null key, which stayed null
C13_Witness ==
    /\ last.op = "set" /\ PreNull
    /\ last.value = PyNone
    /\ last.err = "none"
    /\ docs[last.doc].data[LastKey] = PyNone

-----------------------------------------------------------------------------
(* C14 *)

\* the lexeme of the value node key k of Document d referred to before the
\* last call, and the lexeme that node holds now
PreLexeme(d, k) ==
    last.pre.nodes[last.pre.docs[d].refs[k].ids[1]].children[1].tok.value
NowLexeme(d, k) ==
    nodes[last.pre.docs[d].refs[k].ids[1]].children[1].tok.value

\* C14: after a successful set(key, v) with a float v on a float or double
\* slot whose lexeme held an exponent marker c of D, d, E, e, the new lexeme
\* holds the same marker c, and holds no e unless c is e.
C14_NotationPreserved ==
    (/\ last.op = "set" /\ last.err = "none"
     /\ PreScalarRule(last.doc, LastKey) \in {"float", "double"}
     /\ FirstIn(PreLexeme(last.doc, LastKey), ExponentMarkers) > 0)
    => LET old == PreLexeme(last.doc, LastKey)
           new == NowLexeme(last.doc, LastKey)
           c   == old[FirstIn(old, ExponentMarkers)]
       IN  /\ \E i \in DOMAIN new : new[i] = c
           /\ c # "e" => \A i \in DOMAIN new : new[i] # "e"

-----------------------------------------------------------------------------
(* C15 *)

\* the positions at which two token sequences of equal length differ
DiffPositions(a, b) == {j \in DOMAIN a : a[j] # b[j]}

\* C15: a successful list[i] = v rewrites the lexeme of the i-th referenced
\* value node and changes no other node, sets element i and no other element
\* of any list, leaves the Documents alone, and to_text() differs from the
\* text before the call at that one token at most.
C15_IndexAssignmentFrame ==
    (last.op = "list_setitem" /\ last.err = "none") =>
        LET l  == last.lst
            i  == last.index.a + 1
            id == last.pre.lists[l].refs[i]
        IN  /\ \A n \in DOMAIN nodes : n # id => nodes[n] = last.pre.nodes[n]
            /\ nodes[id].data = last.pre.nodes[id].data
            /\ nodes[id].parent = last.pre.nodes[id].parent
            /\ nodes[id].children[1].tok.type = last.pre.nodes[id].children[1].tok.type
            /\ last.value.t = "int" =>
                  nodes[id].children[1].tok.value = PyStrInt(last.value.v)
            /\ docs = last.pre.docs
            /\ \A m \in DOMAIN lists : m # l => lists[m] = last.pre.lists[m]
            /\ lists[l].refs = last.pre.lists[l].refs
            /\ Len(lists[l].data) = Len(last.pre.lists[l].data)
            /\ \A j \in DOMAIN lists[l].data :
                  lists[l].data[j] = IF j = i THEN last.value
                                     ELSE last.pre.lists[l].data[j]
            /\ Len(ToText(RootId)) = Len(PreText(RootId))
            /\ \A j \in DiffPositions(ToText(RootId), PreText(RootId)) :
                  ToText(RootId)[j] = nodes[id].children[1].tok
            /\ Cardinality(DiffPositions(ToText(RootId), PreText(RootId))) <= 1

\* B[1] = 30 on B = 2,3,4 gave B = 2,30,4
C15_Witness ==
    /\ last.op = "list_setitem" /\ last.err = "none"
    /\ last.index.a = 1 /\ last.value = PyIntV(30)
    /\ PreText(RootId) = text
    /\ ToText(RootId) =
          <<KEY(Ch("B")), EQ, INT("2"), COMMA, Tok("INTEGER", <<"3", "0">>), COMMA, INT("4")>>

-----------------------------------------------------------------------------
(* C16 *)

\* C16: to_text() leaves the value maps, the references and the tree (nodes,
\* lexemes, parent links) as they were, so a second to_text() returns the same
\* text; and the lexeme a successful set writes is in the text of the
\* Document afterwards, whatever calls came before.
C16_ToTextIsPure ==
    /\ last.op = "str" =>
          /\ StateUnchanged
          /\ Config_str(nodes, docs[last.doc]) = last.result.v
    /\ (last.op = "set" /\ last.err = "none"
        /\ PreScalarRule(last.doc, LastKey) = "integer") =>
          /\ NowLexeme(last.doc, LastKey) = PyStrInt(last.value.v)
          /\ \E j \in DOMAIN ToText(last.doc) :
                ToText(last.doc)[j] = Tok("INTEGER", PyStrInt(last.value.v))

\* to_text() was called on a Document with keys after an earlier set changed it
C16_Witness ==
    /\ last.op = "str" /\ last.doc = RootId
    /\ last.result.v # <<>>
    /\ last.result.v # text
    /\ nodes = last.pre.nodes

-----------------------------------------------------------------------------
(* Claims on the layout generators, under LayoutSpec *)

\* how often x occurs in the list xs
CountIn(xs, x) == Cardinality({i \in DOMAIN xs : xs[i] = x})
\* how far a layout is from square
Squareness(x) == PyAbs(x.atm_nx - x.atm_ny) + PyAbs(x.mom_nx - x.mom_ny)
GenerateReturned == layout.fn = "generate" /\ layout.out.err = "none"

\* C17: every layout returned by _generate_esm1p6_layout_from_core_counts uses at
\* least min_ncores_needed cores and at most ncores_for_atm_and_ocn + ice_ncores,
\* and the call with min_ncores_needed lowered, all else equal, returns every
\* layout the call with the higher value returned (as often as it returned it)
C17_CoreCountBounds ==
    layout.fn = "generate" =>
        /\ layout.out.err = "none" =>
              \A i \in DOMAIN layout.out.v :
                  /\ layout.args.min_ncores_needed <= layout.out.v[i].ncores_used
                  /\ layout.out.v[i].ncores_used
                        <= layout.args.ncores_for_atm_and_ocn + layout.args.ice_ncores
        /\ layout.prev.err = "none" =>
              /\ layout.out.err = "none"
              /\ \A i \in DOMAIN layout.prev.v :
                    CountIn(layout.prev.v, layout.prev.v[i])
                       <= CountIn(layout.out.v, layout.prev.v[i])

\* a lowered call that returned more layouts than the call before it, which had
\* returned some, one of them leaving cores unused
C17_Witness ==
    /\ GenerateReturned
    /\ layout.prev.err = "none"
    /\ layout.prev.v # <<>>
    /\ Len(layout.out.v) > Len(layout.prev.v)
    /\ \E i \in DOMAIN layout.out.v :
          layout.out.v[i].ncores_used
             < layout.args.ncores_for_atm_and_ocn + layout.args.ice_ncores

\* C18: the list returned by _generate_esm1p6_layout_from_core_counts is in
\* descending order of ncores_used, and layouts of equal ncores_used are in
\* ascending order of |atm_nx - atm_ny| + |mom_nx - mom_ny|
C18_LayoutOrdering ==
    GenerateReturned =>
        \A i \in 1..(Len(layout.out.v) - 1) :
            \/ layout.out.v[i].ncores_used > layout.out.v[i + 1].ncores_used
            \/ /\ layout.out.v[i].ncores_used = layout.out.v[i + 1].ncores_used
               /\ Squareness(layout.out.v[i]) <= Squareness(layout.out.v[i + 1])

\* a returned list with a step down in ncores_used and a tie broken by squareness
C18_Witness ==
    /\ GenerateReturned
    /\ \E i \in 1..(Len(layout.out.v) - 1) :
          layout.out.v[i].ncores_used > layout.out.v[i + 1].ncores_used
    /\ \E i \in 1..(Len(layout.out.v) - 1) :
          /\ layout.out.v[i].ncores_used = layout.out.v[i + 1].ncores_used
          /\ Squareness(layout.out.v[i]) < Squareness(layout.out.v[i + 1])

\* C19: find_layouts_with_maxncore raises ValueError for maxncore < 1 or
\* abs_maxdiff_nx_ny < 0; otherwise every (nx, ny) it returns has
\* nx * ny <= maxncore and |nx - ny| <= abs_maxdiff_nx_ny, nx even under even_nx,
\* nx >= ny under prefer_nx_greater_than_ny, and no pair is returned twice
C19_FindLayoutsConstraints ==
    layout.fn = "find" /\ layout.out # NotCalled =>
        IF layout.args.maxncore < 1 \/ layout.args.abs_maxdiff_nx_ny < 0
        THEN layout.out.err = "ValueError"
        ELSE /\ layout.out.err = "none"
             /\ \A i \in DOMAIN layout.out.v :
                   /\ layout.out.v[i][1] * layout.out.v[i][2] <= layout.args.maxncore
                   /\ PyAbs(layout.out.v[i][1] - layout.out.v[i][2])
                         <= layout.args.abs_maxdiff_nx_ny
                   /\ layout.args.even_nx => layout.out.v[i][1] % 2 = 0
                   /\ layout.args.prefer_nx_greater_than_ny
                         => layout.out.v[i][1] >= layout.out.v[i][2]
                   /\ CountIn(layout.out.v, layout.out.v[i]) = 1

\* a call with both options set that returned several pairs
C19_Witness ==
    /\ layout.fn = "find"
    /\ layout.out.err = "none"
    /\ layout.args.even_nx
    /\ layout.args.prefer_nx_greater_than_ny
    /\ Len(layout.out.v) >= 2

-----------------------------------------------------------------------------
(* Claims on the profiling parser, under ProfileSpec *)

\* the stream has no version line and no header of a known version
NoVersionInStream ==
    \A i \in DOMAIN profile.stream :
        profile.stream[i].kind \notin {"release", "version_no", "header"}

\* C20: UMProfilingParser.read raises ValueError when the stream has no version
\* string and none of the known headers
C20_NoVersionIsValueError ==
    profile.fn = "read" /\ profile.out # NotCalled /\ NoVersionInStream
        => profile.out.err = "ValueError"

-----------------------------------------------------------------------------
(* C21 *)

\* the value the registry reads from the lexeme value node id holds
ValueOfNode(ns, id) == from_token(ns[id].data, ns[id].children[1].tok.value)

\* in the tree ns, the Documents ds and the lists ls every scalar value is the
\* one read from the lexeme of its reference, and every list element the one
\* read from the lexeme of its element reference
InSync(ns, ds, ls) ==
    \A d \in DOMAIN ds : \A k \in DOMAIN ds[d].data :
        IF ds[d].refs[k].list
        THEN /\ ds[d].data[k].t = "ConfigList"
             /\ Len(ls[ds[d].data[k].v].data) = Len(ds[d].refs[k].ids)
             /\ \A i \in DOMAIN ds[d].refs[k].ids :
                   ls[ds[d].data[k].v].data[i] = ValueOfNode(ns, ds[d].refs[k].ids[i])
        ELSE ns[ds[d].refs[k].ids[1]].data \in DOMAIN RegisteredType
                => ds[d].data[k] = ValueOfNode(ns, ds[d].refs[k].ids[1])

\* C21: parse leaves every stored value equal to from_token of the lexeme of its
\* reference, and every set, delete and ConfigList index or slice assignment,
\* successful or failing, made in a state where that holds leaves it holding
C21_ValueTreeSync ==
    /\ last.op = "parse" => InSync(nodes, docs, lists)
    /\ (/\ last.op \in {"set", "setget", "del", "list_setitem", "list_setslice"}
        /\ InSync(last.pre.nodes, last.pre.docs, last.pre.lists))
       => InSync(nodes, docs, lists)

-----------------------------------------------------------------------------
(* C22 *)

\* the tree ns with the node rule taken out of its parent's child sequence
Detached(ns, rule) ==
    LET Other(c) == ~(c.kind = "Tree" /\ c.id = rule)
    IN  [ns EXCEPT ![ns[rule].parent].children =
                      SelectSeq(ns[ns[rule].parent].children, Other)]

\* C22: a successful delete(key) takes exactly the rule node owning the key's
\* reference out of its parent's child sequence and removes exactly that key
\* from the value and reference maps; the rest of the tree, the other keys,
\* the other Documents and the lists are unchanged
C22_DeleteDetachesOwner ==
    (last.op = "del" /\ last.err = "none") =>
        /\ nodes = Detached(last.pre.nodes,
                            find_rule_node(last.pre.nodes,
                                           last.pre.docs[last.doc].refs[LastKey]))
        /\ docs = [last.pre.docs EXCEPT
                     ![last.doc].data = DictDel(last.pre.docs[last.doc].data, LastKey),
                     ![last.doc].refs = DictDel(last.pre.docs[last.doc].refs, LastKey),
                     ![last.doc].order = SeqRemove(last.pre.docs[last.doc].order, LastKey)]
        /\ lists = last.pre.lists

-----------------------------------------------------------------------------
(* C28, under LayoutSpec *)

\* C28: every (nx, ny) returned by find_layouts_with_maxncore has nx >= 1 and
\* ny >= 1
C28_PositiveDimensions ==
    layout.fn = "find" /\ layout.out.err = "none" =>
        \A i \in DOMAIN layout.out.v :
            layout.out.v[i][1] >= 1 /\ layout.out.v[i][2] >= 1

-----------------------------------------------------------------------------
(* C29, under OM3Spec *)

\* the pools of the call in the order _check_pools gives them, and the minimum
\* number of blocks of a pool
PoolsOfCall == check_pools(layout.args.pool_map, layout.args.pool_order).v
MinBlocksOf(pool) ==
    IF pool \in DOMAIN layout.args.min_blocks THEN layout.args.min_blocks[pool] ELSE 1
\* the block size used for node count n: that of the last place n has in nodes
BlockSizeOf(n) ==
    LET Last(is) == CHOOSE i \in is : \A j \in is : j <= i
        Of(bpn) == layout.args.nodesize \div bpn
    IN  Of(normalise_blocks_per_node(Len(layout.args.nodes), layout.args.blocks_per_node,
                                     layout.args.default_blocks_per_node)
               .v[Last({i \in DOMAIN layout.args.nodes : layout.args.nodes[i] = n})])

\* C29: in every ConfigLayout returned for a node count n, ncpus is the sum of
\* pool_ntasks and is n * nodesize, every pool has at least its minimum number
\* of blocks, and the rootpe of a pool is the sum of the ntasks of the pools
\* before it in pool order, the first pool starting at 0
C29_LayoutsPartitionPEs ==
    layout.fn = "om3" /\ layout.out.err = "none" =>
        \A n \in DOMAIN layout.out.v : \A i \in DOMAIN layout.out.v[n] :
            /\ layout.out.v[n][i].ncpus = n * layout.args.nodesize
            /\ layout.out.v[n][i].ncpus
                  = PySum([p \in DOMAIN PoolsOfCall |->
                              layout.out.v[n][i].pool_ntasks[PoolsOfCall[p]]])
            /\ \A p \in DOMAIN PoolsOfCall :
                  /\ layout.out.v[n][i].pool_ntasks[PoolsOfCall[p]]
                        >= MinBlocksOf(PoolsOfCall[p]) * BlockSizeOf(n)
                  /\ layout.out.v[n][i].pool_rootpe[PoolsOfCall[p]]
                        = PySum([q \in 1..(p - 1) |->
                                    layout.out.v[n][i].pool_ntasks[PoolsOfCall[q]]])

-----------------------------------------------------------------------------
(* C23, C24, under TreeSpec *)

\* the statements of a block: its key_* children, in order
StatementsOf(ns, tree) ==
    LET IsStatement(c) ==
            c.kind = "Tree"
                /\ ns[c.id].data \in {"key_value", "key_list", "key_null", "key_block"}
        Of(cs) == [i \in DOMAIN cs |-> cs[i].id]
    IN  Of(SelectSeq(ns[tree].children, IsStatement))
\* the value nodes of a statement, its key as the Document spells it, and the
\* value and the reference it stands for
ValueNodesOf(ns, c) ==
    LET IsValue(x) == ns[x.id].data \in DOMAIN RegisteredType
        Of(cs) == [i \in DOMAIN cs |-> cs[i].id]
    IN  Of(SelectSeq(ns[c].children, IsValue))
KeyOfStatement(ns, c) ==
    IF caseSensitive THEN ns[ns[c].children[1].id].children[1].tok.value
    ELSE PyUpper(ns[ns[c].children[1].id].children[1].tok.value)
RefOfStatement(ns, c) ==
    CASE ns[c].data = "key_value" -> NodeRef(ValueNodesOf(ns, c)[1])
      [] ns[c].data = "key_list"  -> ListRef(ValueNodesOf(ns, c))
      [] ns[c].data = "key_block" -> NodeRef(ns[c].children[2].id)
      [] OTHER                    -> NodeRef(c)
ValueOfStatement(ns, c) ==
    CASE ns[c].data = "key_value" -> ValueOfNode(ns, ValueNodesOf(ns, c)[1])
      [] ns[c].data = "key_list"  ->
            PyList([i \in DOMAIN ValueNodesOf(ns, c) |-> ValueOfNode(ns, ValueNodesOf(ns, c)[i])])
      [] ns[c].data = "key_block" -> [t |-> "Config", v |-> ns[c].children[2].id]
      [] OTHER                    -> PyNone
\* the last statement with key k, and the keys in the order they first occur
LastWith(ns, sts, k) ==
    sts[CHOOSE i \in DOMAIN sts :
           /\ KeyOfStatement(ns, sts[i]) = k
           /\ \A j \in DOMAIN sts : KeyOfStatement(ns, sts[j]) = k => j <= i]
FirstKeys(ns, sts) ==
    LET IsFirst(i) == \A j \in 1..(i - 1) :
                          KeyOfStatement(ns, sts[j]) # KeyOfStatement(ns, sts[i])
        Of(is) == [n \in DOMAIN is |-> KeyOfStatement(ns, sts[is[n]])]
    IN  Of(SelectSeq([i \in DOMAIN sts |-> i], IsFirst))
\* the maps data, refs and the key order are those of last-write-wins over sts;
\* a list value is either a plain list or the ConfigList that wraps it
LastWriteWins(ns, sts, data, refs, order, ls) ==
    /\ order = FirstKeys(ns, sts)
    /\ DOMAIN data = {KeyOfStatement(ns, sts[i]) : i \in DOMAIN sts}
    /\ DOMAIN refs = DOMAIN data
    /\ \A k \in DOMAIN data :
          /\ refs[k] = RefOfStatement(ns, LastWith(ns, sts, k))
          /\ IF data[k].t = "ConfigList"
             THEN /\ PyList(ls[data[k].v].data) = ValueOfStatement(ns, LastWith(ns, sts, k))
                  /\ ls[data[k].v].refs = refs[k].ids
             ELSE data[k].t = ValueOfStatement(ns, LastWith(ns, sts, k)).t
                  /\ data[k] = ValueOfStatement(ns, LastWith(ns, sts, k))

\* C23: in every Document made, each key has the value and the reference of
\* its last occurrence in the block, whatever the kinds of the occurrences,
\* and the keys iterate in the order of their first occurrence
C23_LastWriteWins ==
    (last.op = "visit" /\ last.err = "none") =>
        \A d \in DOMAIN docs :
            LastWriteWins(nodes, StatementsOf(nodes, docs[d].tree),
                          docs[d].data, docs[d].refs, docs[d].order, lists)

\* a key occurs twice in the root with occurrences of different kinds
C23_Witness ==
    /\ last.op = "visit"
    /\ last.err = "none"
    /\ \E i, j \in DOMAIN StatementsOf(nodes, RootId) :
          /\ i < j
          /\ KeyOfStatement(nodes, StatementsOf(nodes, RootId)[i])
                = KeyOfStatement(nodes, StatementsOf(nodes, RootId)[j])
          /\ nodes[StatementsOf(nodes, RootId)[i]].data = "key_block"
          /\ nodes[StatementsOf(nodes, RootId)[j]].data = "key_list"
          /\ docs[RootId].data[KeyOfStatement(nodes, StatementsOf(nodes, RootId)[j])].t
                = "ConfigList"

\* the key_value statements of the root without exactly one value node
BadStatements ==
    {i \in DOMAIN StatementsOf(nodes, RootId) :
        /\ nodes[StatementsOf(nodes, RootId)[i]].data = "key_value"
        /\ Len(ValueNodesOf(nodes, StatementsOf(nodes, RootId)[i])) # 1}
\* the statements of the root visited before the first bad one
VisitedStatements ==
    LET Before(f) == SubSeq(StatementsOf(nodes, RootId), 1, f - 1)
    IN  IF BadStatements = {} THEN StatementsOf(nodes, RootId)
        ELSE Before(CHOOSE f \in BadStatements : \A g \in BadStatements : f <= g)

\* C24: the visit raises ValueError exactly when a key_value has no value node
\* or more than one; the maps then hold what the statements before it wrote
\* and nothing for that statement, and no Document is made; a key_value with
\* exactly one value node writes the parsed value and the node
C24_ExactlyOneValue ==
    last.op = "visit" =>
        /\ last.err = (IF BadStatements = {} THEN "none" ELSE "ValueError")
        /\ LastWriteWins(nodes, VisitedStatements, last.result.v.data, last.result.v.refs,
                         last.result.v.order, <<>>)
        /\ BadStatements # {} => docs = EmptyDict
        /\ \A i \in DOMAIN VisitedStatements :
              (/\ nodes[VisitedStatements[i]].data = "key_value"
               /\ \A j \in DOMAIN VisitedStatements :
                     j > i => KeyOfStatement(nodes, VisitedStatements[j])
                                 # KeyOfStatement(nodes, VisitedStatements[i]))
              => /\ last.result.v.data[KeyOfStatement(nodes, VisitedStatements[i])]
                       = ValueOfNode(nodes, nodes[VisitedStatements[i]].children[2].id)
                 /\ last.result.v.refs[KeyOfStatement(nodes, VisitedStatements[i])]
                       = NodeRef(nodes[VisitedStatements[i]].children[2].id)

\* a key_value with two value nodes raised after an earlier statement wrote
\* the same key, and the entry of the earlier statement is the one kept
C24_Witness ==
    /\ last.op = "visit"
    /\ last.err = "ValueError"
    /\ \E f \in BadStatements :
          /\ Len(ValueNodesOf(nodes, StatementsOf(nodes, RootId)[f])) = 2
          /\ Len(VisitedStatements) = f - 1
          /\ KeyOfStatement(nodes, StatementsOf(nodes, RootId)[f]) \in DOMAIN last.result.v.data
          /\ last.result.v.data[KeyOfStatement(nodes, StatementsOf(nodes, RootId)[f])].t = "int"

-----------------------------------------------------------------------------
(* C25 *)

\* C25: the root has no parent back-reference, and every other node reachable
\* from the root has one, the only reachable node whose children contain it;
\* this holds after parse and after every set, list assignment and delete
C25_ParentBackReference ==
    /\ nodes[RootId].parent = NoParent
    /\ \A id \in Subtrees(nodes, RootId) \ {RootId} :
          /\ nodes[id].parent \in Subtrees(nodes, RootId)
          /\ \A p \in Subtrees(nodes, RootId) :
                id \in TreeChildren(nodes, p) <=> p = nodes[id].parent

\* a delete has detached a statement and nodes below a block are still reachable
C25_Witness ==
    /\ last.op = "del"
    /\ last.err = "none"
    /\ Subtrees(nodes, RootId) # Subtrees(last.pre.nodes, RootId)
    /\ \E id \in Subtrees(nodes, RootId) :
          nodes[id].data = "key" /\ nodes[nodes[id].parent].parent \notin {NoParent, RootId}

-----------------------------------------------------------------------------
(* C26 *)

\* the kind of every key as the reference map has it: a list with the rules of
\* its value nodes, a block, null or a scalar with its rule
RefKinds(ns, ds) ==
    [d \in DOMAIN ds |->
        [k \in DOMAIN ds[d].refs |->
            IF ds[d].refs[k].list
            THEN [kind |-> "list",
                  rules |-> [i \in DOMAIN ds[d].refs[k].ids |-> ns[ds[d].refs[k].ids[i]].data]]
            ELSE [kind |-> CASE ns[ds[d].refs[k].ids[1]].data = "block" -> "block"
                             [] ns[ds[d].refs[k].ids[1]].data = "key_null" -> "null"
                             [] OTHER -> "scalar",
                  rules |-> <<ns[ds[d].refs[k].ids[1]].data>>]]]
\* the value map agrees with these kinds, every value passing the type_check
\* of the rule of its node
WellKinded(ns, ds, ls) ==
    \A d \in DOMAIN ds :
        /\ DOMAIN ds[d].data = DOMAIN ds[d].refs
        /\ \A k \in DOMAIN ds[d].data :
              CASE RefKinds(ns, ds)[d][k].kind = "list" ->
                      /\ ds[d].data[k].t = "ConfigList"
                      /\ Len(ls[ds[d].data[k].v].data) = Len(ds[d].refs[k].ids)
                      /\ \A i \in DOMAIN ds[d].refs[k].ids :
                            type_check(RefKinds(ns, ds)[d][k].rules[i],
                                       ls[ds[d].data[k].v].data[i])
                [] RefKinds(ns, ds)[d][k].kind = "block" -> ds[d].data[k].t = "Config"
                [] RefKinds(ns, ds)[d][k].kind = "null" -> ds[d].data[k].t = "NoneType"
                [] OTHER -> type_check(RefKinds(ns, ds)[d][k].rules[1], ds[d].data[k])
\* the value of the call is of another kind than the key it is given to
KindMismatch ==
    /\ LastKey \in DOMAIN last.pre.docs[last.doc].refs
    /\ CASE RefKinds(last.pre.nodes, last.pre.docs)[last.doc][LastKey].kind = "list" ->
               ~IsInstanceList(last.value)
         [] RefKinds(last.pre.nodes, last.pre.docs)[last.doc][LastKey].kind = "null" ->
               last.value.t # "NoneType"
         [] RefKinds(last.pre.nodes, last.pre.docs)[last.doc][LastKey].kind = "block" -> TRUE
         [] OTHER -> IsInstanceList(last.value) \/ last.value.t \in {"tuple", "NoneType"}

\* C26: a set leaves every key with the kind it had, in the value map and in
\* the reference map, and what a successful set stores passes the type_check
\* of the rule of its slot; a value of another kind is rejected
C26_KindStability ==
    (last.op \in {"set", "setget"}
        /\ WellKinded(last.pre.nodes, last.pre.docs, last.pre.lists)) =>
        /\ RefKinds(nodes, docs) = RefKinds(last.pre.nodes, last.pre.docs)
        /\ [d \in DOMAIN docs |-> docs[d].refs]
              = [d \in DOMAIN last.pre.docs |-> last.pre.docs[d].refs]
        /\ WellKinded(nodes, docs, lists)
        /\ KindMismatch =>
              /\ last.err # "none"
              /\ docs = last.pre.docs
              /\ lists = last.pre.lists

\* a list key was given a tuple of as many values of the right type
C26_Witness ==
    /\ last.op = "set"
    /\ last.value.t = "tuple"
    /\ LastKey \in DOMAIN last.pre.docs[last.doc].refs
    /\ last.pre.docs[last.doc].refs[LastKey].list
    /\ Len(last.pre.docs[last.doc].refs[LastKey].ids) = Len(last.value.v)
    /\ last.err = "TypeError"
    /\ WellKinded(nodes, docs, lists)

-----------------------------------------------------------------------------
(* C27 *)

\* the token sequence new is old without the tokens of one statement
StatementRemoved(old, new, statement) ==
    \E a \in DOMAIN old :
        /\ SubSeq(old, a, a + Len(statement) - 1) = statement
        /\ new = SubSeq(old, 1, a - 1) \o SubSeq(old, a + Len(statement), Len(old))
\* the token sequence new is old with at most one token changed, to lexeme
TokenReplaced(old, new, lexeme) ==
    /\ Len(new) = Len(old)
    /\ Cardinality(DiffPositions(old, new)) <= 1
    /\ \A j \in DiffPositions(old, new) : new[j] = Tok(old[j].type, lexeme)
\* the node a key of the nested Document refers to before the call, and the
\* lexeme the handler of its rule writes for the value of the call
NestedRef == last.pre.docs[last.doc].refs[LastKey].ids[1]
NestedLexeme ==
    to_token(last.pre.nodes[NestedRef].data, last.value,
             last.pre.nodes[NestedRef].children[1].tok.value)

\* what a set or delete through the nested Document of the call does: the root
\* node of that Document is a node of the root's tree, the root's own maps
\* are as they were, and the root's to_text() has changed at that token or by
\* that statement, that node of the shared tree rewritten or detached
NestedEditFrame ==
        /\ docs[last.doc].tree \in Subtrees(last.pre.nodes, RootId) \ {RootId}
        /\ docs[RootId] = last.pre.docs[RootId]
        /\ IF last.op = "del"
           THEN /\ nodes = Detached(last.pre.nodes,
                                    find_rule_node(last.pre.nodes,
                                                   last.pre.docs[last.doc].refs[LastKey]))
                /\ StatementRemoved(
                       Config_reconstruct(last.pre.nodes, last.pre.docs[RootId]),
                       Config_reconstruct(nodes, docs[RootId]),
                       Reconstruct(last.pre.nodes,
                                   find_rule_node(last.pre.nodes,
                                                  last.pre.docs[last.doc].refs[LastKey])))
           ELSE /\ nodes = [last.pre.nodes EXCEPT ![NestedRef].children[1] =
                               TokItem(Tok(last.pre.nodes[NestedRef].children[1].tok.type,
                                           NestedLexeme))]
                /\ TokenReplaced(Config_reconstruct(last.pre.nodes, last.pre.docs[RootId]),
                                 Config_reconstruct(nodes, docs[RootId]), NestedLexeme)
                /\ Config_reconstruct(nodes, docs[RootId])
                      # Config_reconstruct(last.pre.nodes, last.pre.docs[RootId])
                      <=> NestedLexeme # last.pre.nodes[NestedRef].children[1].tok.value

-----------------------------------------------------------------------------
(* C30, under HandlerSpec *)

\* C30: for the logical, bool, integer, identifier, string and path handlers,
\* a value that passes type_check, written with to_token over any original
\* lexeme of the rule and read back with from_token, is the value again; the
\* lexeme written for a string starts and ends with the first and the last
\* character of the original lexeme
C30_HandlerRoundTrip ==
    (/\ last.op = "update"
     /\ nodes[RootId].data \in {"logical", "bool", "integer", "identifier", "string", "path"}) =>
        /\ last.err = "none" <=> type_check(nodes[RootId].data, last.value)
        /\ last.err = "none" =>
              /\ nodes[RootId].children[1].tok.value
                    = to_token(nodes[RootId].data, last.value,
                               last.pre.nodes[RootId].children[1].tok.value)
              /\ last.result.t = last.value.t
              /\ last.result = last.value
              /\ nodes[RootId].data = "string" =>
                    /\ Head(nodes[RootId].children[1].tok.value)
                          = Head(last.pre.nodes[RootId].children[1].tok.value)
                    /\ nodes[RootId].children[1].tok.value[
                           Len(nodes[RootId].children[1].tok.value)]
                          = last.pre.nodes[RootId].children[1].tok.value[
                                Len(last.pre.nodes[RootId].children[1].tok.value)]

\* a string holding a quote character was written between the double quotes of
\* the original lexeme and read back
C30_Witness ==
    /\ last.op = "update"
    /\ last.err = "none"
    /\ nodes[RootId].data = "string"
    /\ last.value = PyStr(<<"a", "'", "b">>)
    /\ nodes[RootId].children[1].tok.value = <<"\"", "a", "'", "b", "\"">>
    /\ last.result = last.value

====
